---------------------------- MODULE Spec2Model ----------------------------
(***************************************************************************)
(* Interaction relay core of arc-discord: handler bindings, the            *)
(* interaction server's request path, the Redis envelope publisher, the    *)
(* channel naming shared with the subscriber, the subscriber loop, the     *)
(* agent listener, the agent registry with its heartbeat, the lifecycle of *)
(* runAgentListen, the tunnel supervisor (provider resolution, the start   *)
(* of a provider subprocess, the URL wait and TunnelSession.Close), and    *)
(* the daemon manager with its PID file.                                   *)
(*                                                                         *)
(* Strings are sequences of one-character strings, so that strings.ToLower *)
(* and strings.TrimSpace are computed character by character.              *)
(***************************************************************************)
EXTENDS Integers, Sequences, FiniteSets, TLC

VARIABLES
    \* ---- server process (runServerStart) ----
    publicKey,     \* interactionSettings.PublicKey
    redisPrefix,   \* interactionSettings.Redis.ChannelPrefix
    cfg,           \* interactionSettings.Interactions (interactionsConfig)
    dryRun,        \* serverStartOptions.DryRun
    srvState,      \* "init" | "serving" | "failed"
    startErr,      \* error returned by runServerStart before serving ("" = none)
    bindings,      \* result of collectHandlerBindings (slice of handlerBinding)
    handlers,      \* interactions.Server routing table: <<kind, key>> -> binding
    srvDryRun,     \* interactions.Server dry-run option (WithDryRun)
    pubPrefix,     \* redisPublisher.prefix
    \* ---- one goroutine per inbound HTTP request ----
    active,        \* request goroutines the HTTP server runs
    pc,            \* per goroutine: "idle" | "publish" | "ack" | "done"
    req,           \* per goroutine: the request being handled
    resp,          \* per goroutine: the HTTP response written
    env,           \* per goroutine: the envelope handed to Publish
    herr,          \* per goroutine: error returned by the handler ("" = nil)
    published,     \* broker log: PUBLISH commands that succeeded, in broker order
    \* ---- direct use of the publisher and of newRedisSubscriber ----
    pubCalls,      \* number of direct redisPublisher.Publish calls made
    lastCall,      \* the last direct Publish call: envelope, error, PUBLISH commands sent
    subMade,       \* newRedisSubscriber has returned a subscriber
    subAgent,      \* the agent it was created for
    subChannel,    \* redisSubscriber.channel
    \* ---- redisSubscriber.Subscribe ----
    subPc,         \* "idle" | "receive" | "handle" | "returned"
    handlerNil,    \* Subscribe was called with a nil handler
    received,      \* payloads ReceiveMessage has returned, in order
    handled,       \* payloads the handler was invoked with, in order
    results,       \* what each handler invocation returned, in order
    recvErr,       \* the error ReceiveMessage returned (NoErr = none yet)
    subResult,     \* what Subscribe returned
    subsOpened,    \* subscriptions opened by s.subscribe
    subsClosed,    \* subscriptions closed by sub.Close
    \* ---- agentListener.handlePayload ----
    lsnAgent,      \* agentListener.agentID
    lsnAppID,      \* agentListener.applicationID
    lsnPc,         \* "idle" | "edit" | "followup" | "done"
    lsnPayload,    \* the payload handlePayload was called with
    lsnToken,      \* interaction.Token decoded from the envelope
    lsnCalls,      \* outbound calls made by the current handlePayload call, in order
    lsnResult,     \* what handlePayload returned
    lsnCount,      \* handlePayload calls made
    \* ---- agentRegistry and the Redis keys it owns ----
    regPrefix,     \* agentRegistry.prefix
    regTTL,        \* agentRegistry.ttl, in seconds
    regClosed,     \* agentRegistry.Close has closed the client
    regStore,      \* Redis: the registry entries present, as [key, agent, ttl]
    regCmds,       \* client.Set and client.Del calls made, in order
    regCalls,      \* direct Register and Unregister calls made, in order
    \* ---- agentRegistry.Heartbeat goroutine ----
    hbPc,          \* "none" | "select" | "returned"
    hbCtx,         \* ctx.Err() of the heartbeat's context (NoErr = not done)
    hbInfo,        \* info.Agent the heartbeat registers
    hbTicks,       \* ticks of the ticker the loop has consumed
    hbResult,      \* what Heartbeat returned
    \* ---- runAgentListen ----
    runPc,         \* "none" | "register" | "listen" | "defers" | "returned"
    runAgent,      \* agentID
    baseCtx,       \* ctx.Err() of cmd.Context()
    sigCtx,        \* ctx.Err() of the signal.NotifyContext context
    runDefers,     \* deferred calls not yet run, last deferred first
    runDone,       \* deferred calls that have run, in order
    runErr,        \* what runAgentListen returned
    \* ---- resolveTunnelProvider ----
    onPath,        \* the binaries lookPath finds
    resCalls,      \* resolveTunnelProvider calls made, in order
    \* ---- startTunnel and TunnelSession.Close ----
    tunOpts,       \* tunnelOptions: Provider, ListenAddr
    tunCtx,        \* ctx.Err() of the context startTunnel was called with ("" = nil)
    tunPc,         \* position of the startTunnel call
    tunTimer,      \* the context.WithTimeout of the current URL wait
    tunPolls,      \* ticks consumed (ngrok) or lines scanned (localtunnel) by the wait
    tunProcs,      \* per provider: the subprocess and the calls made on it
    tunTried,      \* providers whose start was attempted, with the error, in order
    tunSession,    \* the *TunnelSession startTunnel returned
    tunErr,        \* the error startTunnel returned ("" = nil)
    closePc,       \* position of the Close call: "none" | "select" | "returned"
    closeCtx,      \* ctx.Err() of the context Close is called with ("" = nil)
    closeTimer,    \* the time.After of the stop function
    closeErr,      \* what Close returned ("" = nil)
    \* ---- daemonManager, the PID files and the processes of the host ----
    pidFiles,      \* per path: the PID the file holds (0 = no such file)
    livePids,      \* PIDs of the processes that are alive
    dmnCalls,      \* Start, Stop and Status calls made, in order
    \* ---- `server start --daemon` and the processes it leads to ----
    dzEnvFile,     \* the entries envFromFile reads from the --env-file
    dzProcs,       \* the invocation and its descendants: environ, argv, position
    \* ---- Start calls that overlap on one PID file ----
    starters,      \* per call: position, spawned child, order of its write, error
    \* ---- runServerStart past the daemon branch ----
    servePc,       \* position of runServerStart
    serveCfg,      \* the settings: Tunnel.Provider, Server.ListenAddr, PublicURL
    serveDefers,   \* deferred calls registered so far, in order
    serveLog,      \* calls made on the publisher, the HTTP server and the session
    serveErr,      \* the error runServerStart returns ("" = nil)
    \* ---- loadInteractionSettings ----
    cfgFile        \* the discord.yaml the settings are loaded from

serverVars == <<publicKey, redisPrefix, cfg, dryRun, srvState, startErr,
                bindings, handlers, srvDryRun, pubPrefix>>
requestVars == <<active, pc, req, resp, env, herr, published>>
pubCallVars == <<pubCalls, lastCall, subMade, subAgent, subChannel>>
subVars == <<subPc, handlerNil, received, handled, results, recvErr, subResult,
             subsOpened, subsClosed>>
lsnVars == <<lsnAgent, lsnAppID, lsnPc, lsnPayload, lsnToken, lsnCalls, lsnResult,
             lsnCount>>
regVars == <<regPrefix, regTTL, regClosed, regStore, regCmds, regCalls>>
hbVars == <<hbPc, hbCtx, hbInfo, hbTicks, hbResult>>
runVars == <<runPc, runAgent, baseCtx, sigCtx, runDefers, runDone, runErr>>
resVars == <<onPath, resCalls>>
tunVars == <<tunOpts, tunCtx, tunPc, tunTimer, tunPolls, tunProcs, tunTried,
             tunSession, tunErr, closePc, closeCtx, closeTimer, closeErr>>
dmnVars == <<pidFiles, livePids, dmnCalls>>
dzVars == <<dzEnvFile, dzProcs>>
serveVars == <<servePc, serveCfg, serveDefers, serveLog, serveErr>>
startVars == <<dzVars, starters, serveVars, cfgFile>>
supVars == <<resVars, tunVars, dmnVars, startVars>>
vars == <<serverVars, requestVars, pubCallVars, subVars, lsnVars, regVars, hbVars,
          runVars, supVars>>

\* what the server process and its request goroutines leave alone
notServerVars == <<pubCallVars, subVars, lsnVars, regVars, hbVars, runVars,
                   supVars>>

\* what direct use of the publisher and of newRedisSubscriber leaves alone
notPubVars == <<subVars, lsnVars, regVars, hbVars, runVars, supVars>>

\* what redisSubscriber.Subscribe leaves alone
notSubVars == <<pubCallVars, lsnVars, regVars, hbVars, runVars, supVars>>

\* what agentListener.handlePayload leaves alone
notLsnVars == <<serverVars, requestVars, pubCallVars, subVars, regVars, hbVars,
                runVars, supVars>>

\* what the agent registry and its heartbeat leave alone
notRegVars == <<serverVars, requestVars, pubCallVars, subVars, lsnVars, supVars>>

\* the server, the publisher, the listener and the registry
baseVars == <<serverVars, requestVars, pubCallVars, subVars, lsnVars, regVars,
              hbVars, runVars>>

\* what the tunnel supervisor and the daemon manager leave alone
notSupVars == <<baseVars, startVars>>

\* what the daemonizing server start leaves alone
notDzVars == <<resVars, tunVars, dmnVars, starters, serveVars, cfgFile, baseVars>>

\* what overlapping Start calls leave alone
notRaceVars == <<resVars, tunVars, dmnCalls, dzVars, serveVars, cfgFile, baseVars>>

\* what runServerStart leaves alone, its tunnel apart
notServeVars == <<dmnVars, dzVars, starters, cfgFile, baseVars>>

\* what startTunnel and TunnelSession.Close leave alone
notTunVars == <<resVars, dmnVars, notSupVars>>

-----------------------------------------------------------------------------
(* Bounds *)

\* number of concurrent request goroutines explored by SpecConc
NumThreads == 2

\* number of direct Publish calls explored by SpecPub
MaxPublishCalls == 2

\* number of messages the broker delivers to one subscription in SpecSub
MaxMessages == 3

\* number of handlePayload calls explored by SpecListen
MaxPayloads == 2

\* number of direct Register and Unregister calls explored by SpecReg
MaxRegistryCalls == 3

\* number of ticks a heartbeat's ticker delivers
MaxTicks == 2

-----------------------------------------------------------------------------
(* strings *)

IsSpace(c) == c = " "

LowerChar(c) ==
    CASE c = "A" -> "a"
      [] c = "C" -> "c"
      [] c = "H" -> "h"
      [] c = "L" -> "l"
      [] c = "N" -> "n"
      [] c = "S" -> "s"
      [] c = "X" -> "x"
      [] OTHER -> c

\* strings.ToLower
ToLower(s) == [i \in 1..Len(s) |-> LowerChar(s[i])]

RECURSIVE TrimLeft(_)
TrimLeft(s) == IF s # <<>> /\ IsSpace(Head(s)) THEN TrimLeft(Tail(s)) ELSE s

RECURSIVE TrimRight(_)
TrimRight(s) ==
    IF s # <<>> /\ IsSpace(s[Len(s)]) THEN TrimRight(SubSeq(s, 1, Len(s) - 1)) ELSE s

\* strings.TrimSpace
TrimSpace(s) == TrimRight(TrimLeft(s))

-----------------------------------------------------------------------------
(* constants of the package *)

handlerKindCommand == "command"
handlerKindComponent == "component"
handlerKindModal == "modal"
handlerKindAutocomplete == "autocomplete"

defaultRedisPrefix == <<"arc:discord">>

\* defaultInteractionTimeout, in seconds (15 * time.Minute)
defaultInteractionTimeout == 900

envelopeSource == "vibe.discord.server"

\* a nil interface value of an autocompleteChoice.Value
NilValue == "<nil>"

normalizeChannelPrefix(prefix) ==
    IF TrimSpace(prefix) = <<>> THEN defaultRedisPrefix ELSE prefix

-----------------------------------------------------------------------------
(* handler bindings: collectHandlerBindings, registerInteractionHandlers *)

\* buildAutocompleteChoices testing the name for emptiness without TrimSpace
buildAutocompleteChoices_NoTrim(raw) ==
    LET kept == SelectSeq(raw, LAMBDA e : ~(e.Name = <<>> \/ e.Value = NilValue))
    IN  [i \in 1..Len(kept) |-> [Name |-> kept[i].Name, Value |-> kept[i].Value]]

\* buildAutocompleteChoices: keeps the entries with a non-blank name and a
\* non-nil value, in order, and copies Name and Value only
buildAutocompleteChoices(raw) ==
    LET kept == SelectSeq(raw, LAMBDA e : ~(TrimSpace(e.Name) = <<>> \/ e.Value = NilValue))
    IN  [i \in 1..Len(kept) |-> [Name |-> kept[i].Name, Value |-> kept[i].Value]]

\* the range loop without its `if route.Agent == "" { continue }`
RouteBindings_NoAgentCheck(kind, m, order, lower) ==
    [i \in 1..Len(order) |->
        [Kind |-> kind,
         Key |-> IF lower THEN ToLower(order[i]) ELSE order[i],
         Route |-> m[order[i]],
         AutocompleteChoices |-> <<>>]]

\* the bindings one `for key, route := range m` loop appends, for the
\* iteration order `order` of the map m
RouteBindings(kind, m, order, lower) ==
    LET kept == SelectSeq(order, LAMBDA k : m[k].Agent # <<>>)
    IN  [i \in 1..Len(kept) |->
            [Kind |-> kind,
             Key |-> IF lower THEN ToLower(kept[i]) ELSE kept[i],
             Route |-> m[kept[i]],
             AutocompleteChoices |-> <<>>]]

AutocompleteBindings(m, order) ==
    LET kept == SelectSeq(order, LAMBDA k : Len(buildAutocompleteChoices(m[k].Choices)) # 0)
    IN  [i \in 1..Len(kept) |->
            [Kind |-> handlerKindAutocomplete,
             Key |-> ToLower(kept[i]),
             Route |-> m[kept[i]],
             AutocompleteChoices |-> buildAutocompleteChoices(m[kept[i]].Choices)]]

\* collectHandlerBindings; ord gives Go's (unspecified) iteration order of
\* each of the four maps
collectHandlerBindings(c, ord) ==
    IF ~c.Enabled THEN <<>>
    ELSE RouteBindings(handlerKindCommand, c.Handlers.Commands, ord.Commands, TRUE)
         \o RouteBindings(handlerKindComponent, c.Handlers.Components, ord.Components, FALSE)
         \o RouteBindings(handlerKindModal, c.Handlers.Modals, ord.Modals, FALSE)
         \o AutocompleteBindings(c.Handlers.Autocomplete, ord.Autocomplete)

EmptyTable == [x \in {} |-> x]

Put(f, k, v) == [x \in (DOMAIN f) \cup {k} |-> IF x = k THEN v ELSE f[x]]

KnownKinds == {handlerKindCommand, handlerKindComponent, handlerKindModal,
               handlerKindAutocomplete}

\* the switch with the modal case calling RegisterComponent
RegisteredKind_ModalAsComponent(kind) ==
    CASE kind = handlerKindCommand -> handlerKindCommand
      [] kind = handlerKindComponent -> handlerKindComponent
      [] kind = handlerKindModal -> handlerKindComponent
      [] kind = handlerKindAutocomplete -> handlerKindAutocomplete

\* the server table the `switch binding.Kind` registers a binding's handler in:
\* RegisterCommand, RegisterComponent, RegisterModal or RegisterAutocomplete
RegisteredKind(kind) ==
    CASE kind = handlerKindCommand -> handlerKindCommand
      [] kind = handlerKindComponent -> handlerKindComponent
      [] kind = handlerKindModal -> handlerKindModal
      [] kind = handlerKindAutocomplete -> handlerKindAutocomplete

RECURSIVE RegisterAll(_, _)
RegisterAll(bs, table) ==
    IF bs = <<>> THEN [err |-> "", handlers |-> table]
    ELSE IF Head(bs).Kind \notin KnownKinds
         THEN [err |-> "unknown handler kind", handlers |-> table]
         ELSE RegisterAll(Tail(bs),
                  Put(table, <<RegisteredKind(Head(bs).Kind), Head(bs).Key>>, Head(bs)))

\* registerInteractionHandlers: the routing table it leaves in the server
registerInteractionHandlers(bs) ==
    IF Len(bs) = 0
    THEN [err |-> "no interaction handlers configured", handlers |-> EmptyTable]
    ELSE RegisterAll(bs, EmptyTable)

-----------------------------------------------------------------------------
(* envelopes and the Redis publisher *)

NoEnvelope ==
    [nil |-> TRUE, Agent |-> <<>>, Kind |-> "", Key |-> <<>>, Interaction |-> <<>>,
     ReceivedAt |-> "", TimeoutSeconds |-> 0, Source |-> ""]

\* json.Marshal of a types.Interaction: type, token, then data.name/custom_id
MarshalInteraction(i) == <<i.Type, i.Token>> \o i.Name

\* newRedisEnvelope storing the agent lower-cased instead of as configured
newRedisEnvelope_LowerAgent(binding, timeout, interaction) ==
    [nil |-> FALSE,
     Agent |-> ToLower(binding.Route.Agent),
     Kind |-> binding.Kind,
     Key |-> binding.Key,
     Interaction |-> <<interaction.Type, interaction.Token>> \o interaction.Name,
     ReceivedAt |-> "now",
     TimeoutSeconds |-> timeout,
     Source |-> envelopeSource]

\* newRedisEnvelope (interaction is never nil on the request path)
newRedisEnvelope(binding, timeout, interaction) ==
    [nil |-> FALSE,
     Agent |-> binding.Route.Agent,
     Kind |-> binding.Kind,
     Key |-> binding.Key,
     Interaction |-> MarshalInteraction(interaction),
     ReceivedAt |-> "now",
     TimeoutSeconds |-> timeout,
     Source |-> envelopeSource]

\* json.Marshal of a redisEnvelope: the wire object with its JSON field names
MarshalEnvelope(e) ==
    [agent |-> e.Agent, kind |-> e.Kind, key |-> e.Key, interaction |-> e.Interaction,
     received_at |-> e.ReceivedAt, timeout_seconds |-> e.TimeoutSeconds,
     source |-> e.Source]

\* the channel built from the agent as given, without strings.ToLower
AgentChannel_NoLower(prefix, agent) == prefix \o <<":agent:">> \o agent

\* fmt.Sprintf("%s:agent:%s", prefix, strings.ToLower(agent))
AgentChannel(prefix, agent) == prefix \o <<":agent:">> \o ToLower(agent)

\* Publish testing the agent for emptiness without TrimSpace
Publish_NoTrim(prefix, e, brokerOK) ==
    IF e.nil THEN [err |-> "missing envelope", writes |-> <<>>]
    ELSE IF e.Agent = <<>>
    THEN [err |-> "envelope missing agent", writes |-> <<>>]
    ELSE IF ~brokerOK
    THEN [err |-> "publish redis channel", writes |-> <<>>]
    ELSE [err |-> "",
          writes |-> <<[channel |-> prefix \o <<":agent:">> \o ToLower(e.Agent),
                        payload |-> MarshalEnvelope(e)]>>]

\* redisPublisher.Publish; brokerOK is whether client.Publish succeeds.
\* Returns the error ("" = nil) and the PUBLISH commands sent that succeeded.
Publish(prefix, e, brokerOK) ==
    IF e.nil THEN [err |-> "missing envelope", writes |-> <<>>]
    ELSE IF TrimSpace(e.Agent) = <<>>
    THEN [err |-> "envelope missing agent", writes |-> <<>>]
    ELSE IF ~brokerOK
    THEN [err |-> "publish redis channel", writes |-> <<>>]
    ELSE [err |-> "",
          writes |-> <<[channel |-> AgentChannel(prefix, e.Agent),
                        payload |-> MarshalEnvelope(e)]>>]

-----------------------------------------------------------------------------
(* responses *)

NoResponse == [status |-> 0, type |-> "none", choices |-> <<>>]
Unauthorized == [status |-> 401, type |-> "error", choices |-> <<>>]
BadRequest == [status |-> 400, type |-> "error", choices |-> <<>>]
NotFound == [status |-> 404, type |-> "error", choices |-> <<>>]
HandlerFailed == [status |-> 500, type |-> "error", choices |-> <<>>]
Pong == [status |-> 200, type |-> "pong", choices |-> <<>>]

\* buildDeferredResponse: InteractionResponseDeferredChannelMessageWithSource
buildDeferredResponse == [status |-> 200, type |-> "deferred", choices |-> <<>>]

\* buildAutocompleteResponse: InteractionResponseAutocompleteResult
buildAutocompleteResponse(choices) ==
    [status |-> 200, type |-> "autocomplete_result", choices |-> choices]

\* dispatchHandler: the handler closure of a binding, up to the point where
\* it calls publisher.Publish (publish = TRUE: the handler goes on to Publish env)
dispatchHandler(binding, timeout, interaction) ==
    IF binding.Kind = handlerKindAutocomplete
    THEN IF Len(binding.AutocompleteChoices) = 0
         THEN [err |-> "autocomplete handler missing choices", publish |-> FALSE,
               resp |-> NoResponse, env |-> NoEnvelope]
         ELSE [err |-> "", publish |-> FALSE,
               resp |-> buildAutocompleteResponse(binding.AutocompleteChoices),
               env |-> NoEnvelope]
    ELSE IF binding.Route.Agent = <<>>
         THEN [err |-> "interaction handler missing agent routing", publish |-> FALSE,
               resp |-> NoResponse, env |-> NoEnvelope]
         ELSE [err |-> "", publish |-> TRUE, resp |-> NoResponse,
               env |-> newRedisEnvelope(binding, timeout, interaction)]

\* the handler closure dropping Publish's error and acknowledging anyway
AfterPublish_IgnoreError(perr) == [err |-> "", pc |-> "ack", resp |-> NoResponse]

\* the rest of the handler closure, once publisher.Publish has returned perr
AfterPublish(perr) ==
    IF perr # "" THEN [err |-> perr, pc |-> "done", resp |-> HandlerFailed]
    ELSE [err |-> "", pc |-> "ack", resp |-> NoResponse]

-----------------------------------------------------------------------------
(* interactions.Server.HandleInteraction *)

Sign(key, msg) == [key |-> key, msg |-> msg]

\* Ed25519 verification of sig over timestamp || body
VerifySignature(pub, ts, body, sig) == sig.key = pub /\ sig.msg = ts \o body

\* JSON decoding of the request body: <<type, token>> \o data.name / data.custom_id
DecodeInteraction(body) ==
    IF Len(body) < 2
    THEN [ok |-> FALSE, Type |-> "", Token |-> "", Name |-> <<>>]
    ELSE [ok |-> TRUE, Type |-> body[1], Token |-> body[2],
          Name |-> SubSeq(body, 3, Len(body))]

\* handler kind an interaction type is routed under ("" = none)
RouteKind(type) ==
    CASE type = "2" -> handlerKindCommand
      [] type = "3" -> handlerKindComponent
      [] type = "4" -> handlerKindAutocomplete
      [] type = "5" -> handlerKindModal
      [] OTHER -> ""

Finished(r) == [pc |-> "done", resp |-> r, env |-> NoEnvelope, herr |-> ""]

\* what HandleInteraction does with request r up to the handler's Publish call
HandleRequest(r) ==
    IF ~srvDryRun /\ ~VerifySignature(publicKey, r.ts, r.body, r.sig)
    THEN Finished(Unauthorized)
    ELSE LET i == DecodeInteraction(r.body) IN
         IF ~i.ok THEN Finished(BadRequest)
         ELSE IF i.Type = "1" THEN Finished(Pong)
         ELSE IF RouteKind(i.Type) = "" THEN Finished(BadRequest)
         ELSE LET k == <<RouteKind(i.Type), i.Name>> IN
              IF k \notin DOMAIN handlers THEN Finished(NotFound)
              ELSE LET d == dispatchHandler(handlers[k], cfg.Timeout, i) IN
                   IF d.err # ""
                   THEN [pc |-> "done", resp |-> HandlerFailed, env |-> NoEnvelope,
                         herr |-> d.err]
                   ELSE IF d.publish
                   THEN [pc |-> "publish", resp |-> NoResponse, env |-> d.env,
                         herr |-> ""]
                   ELSE Finished(d.resp)

-----------------------------------------------------------------------------
(* inputs: configurations and requests *)

Route(agent) == [Agent |-> agent, Choices |-> <<>>]

Choice(name, value) == [Name |-> name, Description |-> "d", Value |-> value]

ChoiceRoute(choices) == [Agent |-> <<>>, Choices |-> choices]

\* all maps from a subset of keys to routes
PartialMaps(keys, routes) == UNION {[d -> routes] : d \in SUBSET keys}

\* all orders in which a Go map with key set S can be iterated
Orders(S) ==
    {o \in [1..Cardinality(S) -> S] : \A i, j \in 1..Cardinality(S) : o[i] = o[j] => i = j}

CommandMaps == PartialMaps({<<"h">>, <<"H">>}, {Route(<<>>), Route(<<"c">>)})
ComponentMaps == PartialMaps({<<"o">>}, {Route(<<" ">>), Route(<<"X">>)})
ModalMaps == PartialMaps({<<"f">>}, {Route(<<"c">>)})

ChoiceLists ==
    { <<>>,
      <<Choice(<<"r">>, "recent")>>,
      <<Choice(<<" ">>, "blank")>>,
      <<Choice(<<" ">>, "blank"), Choice(<<"r">>, "recent"),
        Choice(<<"n">>, NilValue), Choice(<<"a">>, "all")>> }

AutocompleteMaps == PartialMaps({<<"S">>}, {ChoiceRoute(l) : l \in ChoiceLists})

ConfigSet ==
    [Enabled : BOOLEAN,
     Timeout : {defaultInteractionTimeout},
     Handlers : [Commands : CommandMaps, Components : ComponentMaps,
                 Modals : ModalMaps, Autocomplete : AutocompleteMaps]]

\* the configurations explored with concurrent requests
ConcConfigSet ==
    {c \in ConfigSet :
        /\ c.Enabled
        /\ DOMAIN c.Handlers.Commands = {<<"h">>}
        /\ c.Handlers.Commands[<<"h">>].Agent = <<"c">>
        /\ DOMAIN c.Handlers.Components = {<<"o">>}
        /\ DOMAIN c.Handlers.Modals = {}
        /\ DOMAIN c.Handlers.Autocomplete = {}}

Body(type, token, name) == <<type, token>> \o name

Bodies ==
    { Body("1", "tok", <<>>),          \* ping
      Body("2", "tok", <<"h">>),       \* command h
      Body("2", "tok", <<"z">>),       \* command z (never configured)
      Body("3", "tok", <<"o">>),       \* component o
      Body("3", "tok", <<"f">>),       \* component f (f is configured as a modal only)
      Body("4", "tok", <<"s">>),       \* autocomplete s
      Body("5", "tok", <<"f">>),       \* modal f
      Body("9", "tok", <<"h">>),       \* an interaction type the server does not route
      <<"{">> }                        \* not a JSON interaction

Timestamp == <<"t1">>

\* the signatures a request with the given body may carry: by the configured
\* key over timestamp||body, by another key, over the body alone, over another
\* timestamp, and a string that is no signature
SignaturesFor(body) ==
    { Sign("K1", Timestamp \o body),
      Sign("K2", Timestamp \o body),
      Sign("K1", body),
      Sign("K1", <<"t0">> \o body),
      Sign("deadbeef", <<>>) }

Requests ==
    UNION {{[ts |-> Timestamp, body |-> b, sig |-> s] : s \in SignaturesFor(b)} : b \in Bodies}

NoRequest == [ts |-> <<>>, body |-> <<>>, sig |-> Sign("", <<>>)]

Threads == 1..NumThreads

-----------------------------------------------------------------------------
(* errors: the text and the sentinel errors errors.Is finds in the chain *)

NoErr == [text |-> "", is |-> {}]

errorsIs(err, target) == target \in err.is

\* no direct publisher use and no subscriber constructed
NoPublisherUse ==
    /\ pubCalls = 0
    /\ lastCall = [env |-> NoEnvelope, err |-> "", wrote |-> 0]
    /\ subMade = FALSE
    /\ subAgent = <<>>
    /\ subChannel = <<>>

\* Subscribe has not been called
NoSubscription ==
    /\ subPc = "idle"
    /\ handlerNil = FALSE
    /\ received = <<>>
    /\ handled = <<>>
    /\ results = <<>>
    /\ recvErr = NoErr
    /\ subResult = NoErr
    /\ subsOpened = 0
    /\ subsClosed = 0

\* the payload variable before any handlePayload call
NoPayload == [raw |-> ""]

\* handlePayload has not been called
NoListener ==
    /\ lsnAgent = <<>>
    /\ lsnAppID = ""
    /\ lsnPc = "idle"
    /\ lsnPayload = NoPayload
    /\ lsnToken = ""
    /\ lsnCalls = <<>>
    /\ lsnResult = NoErr
    /\ lsnCount = 0

\* no agent registry was created, no heartbeat started, runAgentListen not run
NoRegistry ==
    /\ regPrefix = <<>>
    /\ regTTL = 0
    /\ regClosed = FALSE
    /\ regStore = {}
    /\ regCmds = <<>>
    /\ regCalls = <<>>
    /\ hbPc = "none"
    /\ hbCtx = NoErr
    /\ hbInfo = <<>>
    /\ hbTicks = 0
    /\ hbResult = NoErr
    /\ runPc = "none"
    /\ runAgent = <<>>
    /\ baseCtx = NoErr
    /\ sigCtx = NoErr
    /\ runDefers = <<>>
    /\ runDone = <<>>
    /\ runErr = NoErr

\* a provider subprocess that was never launched
NoProcess == [state |-> "none", calls |-> <<>>]

\* a timer or timeout context that was never armed
NoTimer == [state |-> "off", secs |-> 0]

\* a nil *TunnelSession
NoSession == [Provider |-> "", URL |-> ""]

\* resolveTunnelProvider was not called
NoResolve ==
    /\ onPath = {}
    /\ resCalls = <<>>

\* startTunnel was not called
NoTunnel ==
    /\ tunOpts = [Provider |-> <<>>, ListenAddr |-> ""]
    /\ tunCtx = ""
    /\ tunPc = "idle"
    /\ tunTimer = NoTimer
    /\ tunPolls = 0
    /\ tunProcs = [p \in {"ngrok", "localtunnel"} |-> NoProcess]
    /\ tunTried = <<>>
    /\ tunSession = NoSession
    /\ tunErr = ""
    /\ closePc = "none"
    /\ closeCtx = ""
    /\ closeTimer = NoTimer
    /\ closeErr = ""

\* the per-user default PID file of defaultPIDPath(), and one given by --pid-file
defaultPIDPath == "~/.cache/vibe/discord-server.pid"
customPIDPath == "/run/discord.pid"

\* no daemon manager was used, no PID file exists
NoDaemon ==
    /\ pidFiles = [path \in {defaultPIDPath, customPIDPath} |-> 0]
    /\ livePids = {}
    /\ dmnCalls = <<>>

\* `server start` was not invoked
NoDaemonize ==
    /\ dzEnvFile = <<>>
    /\ dzProcs = <<>>

\* no Start call is under way
NoStarters == starters = <<>>

\* runServerStart was not called
NoServe ==
    /\ servePc = "none"
    /\ serveCfg = [Provider |-> <<>>, ListenAddr |-> "", PublicURL |-> ""]
    /\ serveDefers = <<>>
    /\ serveLog = <<>>
    /\ serveErr = ""

\* no discord.yaml: loadInteractionSettings is called with an empty path
NoFile ==
    [present |-> FALSE, enabled |-> "absent",
     Handlers |-> [Commands |-> EmptyTable, Components |-> EmptyTable,
                   Modals |-> EmptyTable, Autocomplete |-> EmptyTable]]

NoConfigFile == cfgFile = NoFile

NoStart ==
    /\ NoDaemonize
    /\ NoStarters
    /\ NoServe
    /\ NoConfigFile

\* neither the tunnel supervisor nor the daemon manager is used
NoSupervision ==
    /\ NoResolve
    /\ NoTunnel
    /\ NoDaemon
    /\ NoStart

-----------------------------------------------------------------------------
(* the server process *)

InitRequests(act) ==
    /\ active = act
    /\ pc = [t \in Threads |-> "idle"]
    /\ req = [t \in Threads |-> NoRequest]
    /\ resp = [t \in Threads |-> NoResponse]
    /\ env = [t \in Threads |-> NoEnvelope]
    /\ herr = [t \in Threads |-> ""]
    /\ published = <<>>

InitServer(configs) ==
    /\ publicKey \in {"", "K1"}
    /\ redisPrefix \in {<<>>, <<"p">>}
    /\ cfg \in configs
    /\ dryRun \in BOOLEAN
    /\ srvState = "init"
    /\ startErr = ""
    /\ bindings = <<>>
    /\ handlers = EmptyTable
    /\ srvDryRun = FALSE
    /\ pubPrefix = <<>>

\* runServerStart appending WithDryRun(true) unconditionally
ServerDryRun_Always(flag) == TRUE

\* the dry-run option runServerStart passes to interactions.NewServer:
\* WithDryRun(true) only when overrides.DryRun is set
ServerDryRun(flag) == flag

\* runServerStart up to ListenAndServe: the public key check, newRedisPublisher
\* (which pings Redis), collectHandlerBindings and registerInteractionHandlers
StartFails(e) ==
    /\ srvState' = "failed"
    /\ startErr' = e
    /\ UNCHANGED <<bindings, handlers, srvDryRun, pubPrefix>>

Start ==
    /\ srvState = "init"
    /\ IF publicKey = ""
       THEN StartFails("discord.public_key is required")
       ELSE \E redisUp \in BOOLEAN :
            IF ~redisUp THEN StartFails("failed to connect to redis")
            ELSE \E oc \in Orders(DOMAIN cfg.Handlers.Commands),
                    ox \in Orders(DOMAIN cfg.Handlers.Components),
                    om \in Orders(DOMAIN cfg.Handlers.Modals),
                    oa \in Orders(DOMAIN cfg.Handlers.Autocomplete) :
                 LET bs == collectHandlerBindings(cfg,
                              [Commands |-> oc, Components |-> ox, Modals |-> om,
                               Autocomplete |-> oa])
                     reg == registerInteractionHandlers(bs)
                 IN  /\ bindings' = bs
                     /\ handlers' = reg.handlers
                     /\ srvDryRun' = ServerDryRun(dryRun)
                     /\ pubPrefix' = normalizeChannelPrefix(redisPrefix)
                     /\ startErr' = reg.err
                     /\ srvState' = IF reg.err = "" THEN "serving" ELSE "failed"
    /\ UNCHANGED <<publicKey, redisPrefix, cfg, dryRun>>
    /\ UNCHANGED requestVars
    /\ UNCHANGED notServerVars

\* HandleInteraction on goroutine t, up to the handler's call of Publish
HandleInteraction(t, r) ==
    /\ srvState = "serving"
    /\ t \in active
    /\ pc[t] = "idle"
    /\ LET o == HandleRequest(r)
       IN  /\ pc' = [pc EXCEPT ![t] = o.pc]
           /\ req' = [req EXCEPT ![t] = r]
           /\ resp' = [resp EXCEPT ![t] = o.resp]
           /\ env' = [env EXCEPT ![t] = o.env]
           /\ herr' = [herr EXCEPT ![t] = o.herr]
    /\ UNCHANGED <<active, published>>
    /\ UNCHANGED serverVars
    /\ UNCHANGED notServerVars

\* the handler's publisher.Publish call returns on goroutine t
PublishEnvelope(t) ==
    /\ t \in active
    /\ pc[t] = "publish"
    /\ \E brokerOK \in BOOLEAN :
        LET p == Publish(pubPrefix, env[t], brokerOK)
            a == AfterPublish(p.err)
        IN  /\ published' = published \o
                   [i \in 1..Len(p.writes) |->
                       [channel |-> p.writes[i].channel, payload |-> p.writes[i].payload,
                        by |-> t]]
            /\ pc' = [pc EXCEPT ![t] = a.pc]
            /\ herr' = [herr EXCEPT ![t] = a.err]
            /\ resp' = [resp EXCEPT ![t] = a.resp]
    /\ UNCHANGED <<active, req, env>>
    /\ UNCHANGED serverVars
    /\ UNCHANGED notServerVars

\* the handler returns buildDeferredResponse and the server writes it
RespondDeferred(t) ==
    /\ t \in active
    /\ pc[t] = "ack"
    /\ pc' = [pc EXCEPT ![t] = "done"]
    /\ resp' = [resp EXCEPT ![t] = buildDeferredResponse]
    /\ UNCHANGED <<active, req, env, herr, published>>
    /\ UNCHANGED serverVars
    /\ UNCHANGED notServerVars

Init ==
    /\ InitServer(ConfigSet)
    /\ InitRequests({1})
    /\ NoPublisherUse
    /\ NoSubscription
    /\ NoListener
    /\ NoSupervision
    /\ NoRegistry

InitConc ==
    /\ InitServer(ConcConfigSet)
    /\ publicKey = "K1"
    /\ redisPrefix = <<>>
    /\ ~dryRun
    /\ InitRequests(Threads)
    /\ NoPublisherUse
    /\ NoSubscription
    /\ NoListener
    /\ NoSupervision
    /\ NoRegistry

Next ==
    \/ Start
    \/ \E t \in Threads, r \in Requests : HandleInteraction(t, r)
    \/ \E t \in Threads : PublishEnvelope(t)
    \/ \E t \in Threads : RespondDeferred(t)

Spec == Init /\ [][Next]_vars

\* the same server with NumThreads requests in flight at once
SpecConc == InitConc /\ [][Next]_vars

-----------------------------------------------------------------------------
(* Properties of the server's request path *)

\* number of envelopes the request on goroutine t has published
CountBy(t) == Cardinality({i \in 1..Len(published) : published[i].by = t})

PayloadsBy(t) == {published[i].payload : i \in {j \in 1..Len(published) : published[j].by = t}}

\* the request carries a signature by the configured key over timestamp||body
ValidlySigned(r) == r.sig = Sign(publicKey, r.ts \o r.body)

ReqKind(t) == RouteKind(DecodeInteraction(req[t].body).Type)
ReqName(t) == DecodeInteraction(req[t].body).Name

\* the bindings collected for (kind, key)
BindingsFor(kind, key) ==
    {bindings[i] : i \in {j \in 1..Len(bindings) :
                            bindings[j].Kind = kind /\ bindings[j].Key = key}}

PublishingKinds == {handlerKindCommand, handlerKindComponent, handlerKindModal}

\* goroutine t has finished a validly signed command/component/modal request
\* whose (kind, key) has a binding
RoutedRequestDone(t) ==
    /\ pc[t] = "done"
    /\ ValidlySigned(req[t])
    /\ DecodeInteraction(req[t].body).ok
    /\ ReqKind(t) \in PublishingKinds
    /\ BindingsFor(ReqKind(t), ReqName(t)) # {}

\* the wire envelope carries the agent, kind and key of a binding for (kind, key)
CarriesBinding(payload, kind, key) ==
    \E b \in BindingsFor(kind, key) :
        payload.agent = b.Route.Agent /\ payload.kind = b.Kind /\ payload.key = b.Key

AllSpaces(str) == \A i \in 1..Len(str) : str[i] = " "

\* C1: a request whose signature is not a signature by the configured public
\* key over timestamp||body is answered 401 and publishes no envelope (dry-run
\* off), whatever its body names
C1_InvalidSignatureRejected ==
    \A t \in Threads :
        (pc[t] # "idle" /\ ~dryRun /\ ~ValidlySigned(req[t]))
            => /\ pc[t] = "done"
               /\ resp[t].status = 401
               /\ env[t].nil
               /\ CountBy(t) = 0

\* an unsigned-for-this-message request naming the routed command h was rejected
C1_Witness ==
    \E t \in Threads :
        /\ pc[t] = "done" /\ ~dryRun
        /\ req[t].body = Body("2", "tok", <<"h">>)
        /\ req[t].sig = Sign("K1", req[t].body)
        /\ BindingsFor(handlerKindCommand, <<"h">>) # {}
        /\ resp[t].status = 401

\* C2 as stated: every validly signed, routed command/component/modal request
\* publishes exactly one envelope carrying the binding's agent, kind and key
\* and is answered 200 with a deferred acknowledgment
C2_Original ==
    \A t \in Threads :
        RoutedRequestDone(t)
            => /\ CountBy(t) = 1
               /\ \A p \in PayloadsBy(t) : CarriesBinding(p, ReqKind(t), ReqName(t))
               /\ resp[t] = [status |-> 200, type |-> "deferred", choices |-> <<>>]

\* C2 amended: such a request hands Publish one envelope carrying the binding's
\* agent, kind and key; when Publish succeeds exactly that one envelope is
\* published and the response is 200 deferred; when Publish fails (the broker
\* write fails, or the binding's agent is whitespace-only) nothing is published
\* and the response is an error
C2_RoutedRequestPublishesOnce ==
    \A t \in Threads :
        RoutedRequestDone(t)
            => /\ ~env[t].nil
               /\ CarriesBinding(MarshalEnvelope(env[t]), ReqKind(t), ReqName(t))
               /\ herr[t] \in {"", "publish redis channel", "envelope missing agent"}
               /\ (herr[t] = "envelope missing agent") <=> AllSpaces(env[t].Agent)
               /\ herr[t] = ""
                    => /\ CountBy(t) = 1
                       /\ PayloadsBy(t) = {MarshalEnvelope(env[t])}
                       /\ resp[t] = [status |-> 200, type |-> "deferred", choices |-> <<>>]
               /\ herr[t] # ""
                    => /\ CountBy(t) = 0
                       /\ resp[t].status >= 400

\* a component request routed to agent X was published and acknowledged
C2_Witness ==
    \E t \in Threads :
        /\ RoutedRequestDone(t)
        /\ ReqKind(t) = handlerKindComponent
        /\ herr[t] = ""
        /\ CountBy(t) = 1
        /\ \E p \in PayloadsBy(t) : p.agent = <<"X">>
        /\ resp[t].type = "deferred"

\* goroutine t has finished a validly signed autocomplete request that has a
\* binding
AutocompleteRequestDone(t) ==
    /\ pc[t] = "done"
    /\ ValidlySigned(req[t])
    /\ DecodeInteraction(req[t].body).ok
    /\ ReqKind(t) = handlerKindAutocomplete
    /\ BindingsFor(handlerKindAutocomplete, ReqName(t)) # {}

\* the name/value pairs of a configured choice list, in order
NameValues(choices) ==
    [i \in 1..Len(choices) |-> [Name |-> choices[i].Name, Value |-> choices[i].Value]]

Usable(choice) == ~AllSpaces(choice.Name) /\ choice.Value # NilValue

C4_AckOnlyAfterPublish ==
    /\ \A t \in Threads :
          /\ resp[t].type = "deferred" => (CountBy(t) = 1 /\ herr[t] = "")
          /\ pc[t] = "ack" => CountBy(t) = 1
          /\ herr[t] # "" => (pc[t] = "done" /\ resp[t].type # "deferred" /\ CountBy(t) = 0)
    /\ Cardinality({t \in Threads : resp[t].type = "deferred"}) <= Len(published)

\* one request is acknowledged while another's Publish has failed
C4_Witness ==
    \E t, u \in Threads :
        /\ t # u
        /\ resp[t].type = "deferred"
        /\ herr[u] = "publish redis channel"
        /\ pc[u] = "done"

\* C5: a validly signed command, component or modal request whose (kind, key)
\* has no binding is answered with a 4xx error and publishes nothing
C5_UnroutedRequestRejected ==
    \A t \in Threads :
        ( /\ pc[t] # "idle"
          /\ ValidlySigned(req[t])
          /\ DecodeInteraction(req[t].body).ok
          /\ ReqKind(t) \in PublishingKinds
          /\ BindingsFor(ReqKind(t), ReqName(t)) = {} )
            => /\ pc[t] = "done"
               /\ resp[t].status \in 400..499
               /\ env[t].nil
               /\ CountBy(t) = 0

\* a component request for key f was rejected while f is bound as a modal
C5_Witness ==
    \E t \in Threads :
        /\ pc[t] = "done"
        /\ ValidlySigned(req[t])
        /\ req[t].body = Body("3", "tok", <<"f">>)
        /\ BindingsFor(handlerKindModal, <<"f">>) # {}
        /\ resp[t].status = 404

\* runServerStart got as far as collecting and registering the bindings
RegistrationRan ==
    /\ srvState # "init"
    /\ startErr \notin {"discord.public_key is required", "failed to connect to redis"}

\* C6: every collected binding of a kind other than autocomplete has a
\* non-empty agent, and registration of zero bindings fails and registers nothing
C6_BindingsHaveAgents ==
    /\ \A i \in 1..Len(bindings) :
          bindings[i].Kind # handlerKindAutocomplete => Len(bindings[i].Route.Agent) > 0
    /\ (RegistrationRan /\ Len(bindings) = 0)
          => /\ srvState = "failed"
             /\ startErr = "no interaction handlers configured"
             /\ DOMAIN handlers = {}

\* an enabled configuration whose only routes have an empty agent failed to register
C6_Witness ==
    /\ RegistrationRan
    /\ cfg.Enabled
    /\ \E k \in DOMAIN cfg.Handlers.Commands : cfg.Handlers.Commands[k].Agent = <<>>
    /\ Len(bindings) = 0
    /\ srvState = "failed"

\* C7 as stated: an autocomplete route without a usable choice makes
\* registration (server start) fail with an error
C7_Original ==
    ( /\ RegistrationRan
      /\ \E k \in DOMAIN cfg.Handlers.Autocomplete :
            \A i \in 1..Len(cfg.Handlers.Autocomplete[k].Choices) :
                ~Usable(cfg.Handlers.Autocomplete[k].Choices[i]) )
        => srvState = "failed"

-----------------------------------------------------------------------------
(* the publisher called directly, and newRedisSubscriber *)

AgentNames ==
    { <<>>, <<" ">>, <<" ", " ">>, <<"c">>, <<"C">>, <<"x">>, <<"c", " ">>, <<"C", "x">>,
      <<"c", "X">> }

PrefixSet == { <<>>, <<" ">>, <<"p">>, <<"P">>, <<"p", " ">> }

EnvelopeFor(agent) ==
    [nil |-> FALSE, Agent |-> agent, Kind |-> handlerKindCommand, Key |-> <<"h">>,
     Interaction |-> Body("2", "tok", <<"h">>), ReceivedAt |-> "now",
     TimeoutSeconds |-> defaultInteractionTimeout, Source |-> envelopeSource]

Envelopes == {NoEnvelope} \cup {EnvelopeFor(a) : a \in AgentNames}

\* the channel newRedisSubscriber computes for cfg.ChannelPrefix and agent
SubscriberChannel(prefix, agent) ==
    normalizeChannelPrefix(prefix) \o <<":agent:">> \o ToLower(agent)

\* newRedisPublisher has returned a publisher for cfg.ChannelPrefix
InitPub ==
    /\ publicKey = "K1"
    /\ redisPrefix \in PrefixSet
    /\ cfg = [Enabled |-> FALSE, Timeout |-> defaultInteractionTimeout,
              Handlers |-> [Commands |-> EmptyTable, Components |-> EmptyTable,
                            Modals |-> EmptyTable, Autocomplete |-> EmptyTable]]
    /\ dryRun = FALSE
    /\ srvState = "init"
    /\ startErr = ""
    /\ bindings = <<>>
    /\ handlers = EmptyTable
    /\ srvDryRun = FALSE
    /\ pubPrefix = normalizeChannelPrefix(redisPrefix)
    /\ InitRequests({})
    /\ NoPublisherUse
    /\ NoSubscription
    /\ NoListener
    /\ NoSupervision
    /\ NoRegistry

\* one call of redisPublisher.Publish
PublishCall(e, brokerOK) ==
    /\ pubCalls < MaxPublishCalls
    /\ LET p == Publish(pubPrefix, e, brokerOK)
       IN  /\ published' = published \o
                  [i \in 1..Len(p.writes) |->
                      [channel |-> p.writes[i].channel, payload |-> p.writes[i].payload,
                       by |-> 0]]
           /\ lastCall' = [env |-> e, err |-> p.err, wrote |-> Len(p.writes)]
    /\ pubCalls' = pubCalls + 1
    /\ UNCHANGED <<subMade, subAgent, subChannel>>
    /\ UNCHANGED <<serverVars, active, pc, req, resp, env, herr, notPubVars>>

\* newRedisSubscriber(cfg, agent); it fails when Redis does not answer the ping
NewSubscriber(agent, redisUp) ==
    /\ ~subMade
    /\ IF redisUp
       THEN /\ subMade' = TRUE
            /\ subAgent' = agent
            /\ subChannel' = SubscriberChannel(redisPrefix, agent)
       ELSE UNCHANGED <<subMade, subAgent, subChannel>>
    /\ UNCHANGED <<pubCalls, lastCall>>
    /\ UNCHANGED <<serverVars, requestVars, notPubVars>>

NextPub ==
    \/ \E e \in Envelopes, ok \in BOOLEAN : PublishCall(e, ok)
    \/ \E a \in AgentNames, up \in BOOLEAN : NewSubscriber(a, up)

SpecPub == InitPub /\ [][NextPub]_vars

\* C8: a Publish call with a nil envelope, or with an agent that is empty or
\* only whitespace, returns an error and sends nothing to the broker; so no
\* published envelope has such an agent
C8_BlankAgentNotPublished ==
    /\ (pubCalls > 0 /\ (lastCall.env.nil \/ AllSpaces(lastCall.env.Agent)))
          => (lastCall.err # "" /\ lastCall.wrote = 0)
    /\ \A i \in 1..Len(published) : ~AllSpaces(published[i].payload.agent)
    /\ Len(published) <= pubCalls

\* after one envelope was published, a Publish with a whitespace-only agent failed
C8_Witness ==
    /\ pubCalls = 2
    /\ Len(published) = 1
    /\ lastCall.env = EnvelopeFor(<<" ", " ">>)
    /\ lastCall.err = "envelope missing agent"

\* the two characters are the same letter, ignoring case
CasePairs == {<<"a", "A">>, <<"c", "C">>, <<"h", "H">>, <<"s", "S">>, <<"x", "X">>}
SameLetter(c, d) == c = d \/ <<c, d>> \in CasePairs \/ <<d, c>> \in CasePairs
IsUpper(c) == \E q \in CasePairs : q[2] = c

\* the two names are equal ignoring letter case
EqualIgnoringCase(a, b) ==
    Len(a) = Len(b) /\ \A i \in 1..Len(a) : SameLetter(a[i], b[i])

\* ch is {prefix}:agent:{lowercase agent}, with the default for a blank prefix
IsAgentChannel(ch, prefix, agent) ==
    LET pre == IF AllSpaces(prefix) THEN <<"arc:discord">> ELSE prefix
    IN  /\ Len(ch) = Len(pre) + 1 + Len(agent)
        /\ SubSeq(ch, 1, Len(pre)) = pre
        /\ ch[Len(pre) + 1] = ":agent:"
        /\ \A i \in 1..Len(agent) :
              /\ SameLetter(ch[Len(pre) + 1 + i], agent[i])
              /\ ~IsUpper(ch[Len(pre) + 1 + i])

\* C9: for one configured prefix, the channel an envelope for agent A was
\* published on equals the channel of the subscriber created for agent B
\* exactly when A and B are equal ignoring case; both are
\* {prefix}:agent:{lowercase agent}, a blank prefix replaced by the default
C9_ChannelPerAgent ==
    /\ \A i \in 1..Len(published) :
          /\ IsAgentChannel(published[i].channel, redisPrefix, published[i].payload.agent)
          /\ subMade =>
                ((published[i].channel = subChannel)
                    <=> EqualIgnoringCase(published[i].payload.agent, subAgent))
    /\ subMade => IsAgentChannel(subChannel, redisPrefix, subAgent)

\* with a blank prefix, an envelope for agent "Cx" went to the channel of the
\* subscriber for "cX", and one for "c" did not
C9_Witness ==
    /\ redisPrefix = <<" ">>
    /\ subMade /\ subAgent = <<"c", "X">>
    /\ Len(published) = 2
    /\ published[1].payload.agent = <<"C", "x">>
    /\ published[1].channel = subChannel
    /\ published[2].payload.agent = <<"c">>
    /\ published[2].channel # subChannel

-----------------------------------------------------------------------------
(* redisSubscriber.Subscribe *)

errCanceled == [text |-> "context canceled", is |-> {"context.Canceled"}]
errWrappedCanceled == [text |-> "receive: context canceled", is |-> {"context.Canceled"}]
errClosed == [text |-> "redis: client is closed", is |-> {"redis.ErrClosed"}]
errDeadline ==
    [text |-> "context deadline exceeded", is |-> {"context.DeadlineExceeded"}]
errEOF == [text |-> "EOF", is |-> {"io.EOF"}]

\* the errors sub.ReceiveMessage may return
ReceiveErrors == {errCanceled, errWrappedCanceled, errClosed, errDeadline, errEOF}

errBoom == [text |-> "boom", is |-> {}]
errEditCanceled ==
    [text |-> "edit original response: context canceled", is |-> {"context.Canceled"}]

\* what a handler invocation may return
HandlerResults == {NoErr, errBoom, errEditCanceled}

Payloads == {"m1", "m2"}

\* Subscribe treating only context cancellation as a clean end
SubscribeOnReceiveError_CanceledOnly(err) ==
    IF errorsIs(err, "context.Canceled") THEN NoErr ELSE err

\* what Subscribe returns when ReceiveMessage returned err
SubscribeOnReceiveError(err) ==
    IF errorsIs(err, "context.Canceled") \/ errorsIs(err, "redis.ErrClosed")
    THEN NoErr
    ELSE err

\* Subscribe going on to the next message whatever the handler returned
SubscribeOnHandlerResult_Continue(err) == [return |-> FALSE, err |-> NoErr]

\* what Subscribe does when the handler returned err
SubscribeOnHandlerResult(err) ==
    IF err # NoErr THEN [return |-> TRUE, err |-> err]
    ELSE [return |-> FALSE, err |-> NoErr]

\* Subscribe returning without closing the subscription it opened
subClose_Leak(closed) == closed

\* the deferred sub.Close() running as Subscribe returns
subClose(closed) == closed + 1

\* the handler always given the first message of the subscription
HandlerPayload_First(msgs) == msgs[1]

\* []byte(msg.Payload) of the message ReceiveMessage just returned
HandlerPayload(msgs) == msgs[Len(msgs)]

InitSub ==
    /\ InitPub
    /\ redisPrefix = <<>>

\* Subscribe is called: s.subscribe opens the subscription, sub.Close is deferred
SubscribeBegin(nilHandler) ==
    /\ subPc = "idle"
    /\ subPc' = "receive"
    /\ handlerNil' = nilHandler
    /\ subsOpened' = subsOpened + 1
    /\ UNCHANGED <<received, handled, results, recvErr, subResult, subsClosed>>
    /\ UNCHANGED <<serverVars, requestVars, notSubVars>>

\* sub.ReceiveMessage returns a message
ReceiveMessage(m) ==
    /\ subPc = "receive"
    /\ Len(received) < MaxMessages
    /\ received' = Append(received, m)
    /\ subPc' = IF handlerNil THEN "receive" ELSE "handle"
    /\ UNCHANGED <<handlerNil, handled, results, recvErr, subResult, subsOpened,
                   subsClosed>>
    /\ UNCHANGED <<serverVars, requestVars, notSubVars>>

\* sub.ReceiveMessage returns an error: Subscribe returns, closing the subscription
ReceiveError(e) ==
    /\ subPc = "receive"
    /\ recvErr' = e
    /\ subResult' = SubscribeOnReceiveError(e)
    /\ subPc' = "returned"
    /\ subsClosed' = subClose(subsClosed)
    /\ UNCHANGED <<handlerNil, received, handled, results, subsOpened>>
    /\ UNCHANGED <<serverVars, requestVars, notSubVars>>

\* the handler, invoked with the message just received, returns e
HandlerReturns(e) ==
    /\ subPc = "handle"
    /\ handled' = Append(handled, HandlerPayload(received))
    /\ results' = Append(results, e)
    /\ LET n == SubscribeOnHandlerResult(e)
       IN  IF n.return
           THEN /\ subResult' = n.err
                /\ subPc' = "returned"
                /\ subsClosed' = subClose(subsClosed)
           ELSE /\ subPc' = "receive"
                /\ UNCHANGED <<subResult, subsClosed>>
    /\ UNCHANGED <<handlerNil, received, recvErr, subsOpened>>
    /\ UNCHANGED <<serverVars, requestVars, notSubVars>>

NextSub ==
    \/ \E h \in BOOLEAN : SubscribeBegin(h)
    \/ \E m \in Payloads : ReceiveMessage(m)
    \/ \E e \in ReceiveErrors : ReceiveError(e)
    \/ \E e \in HandlerResults : HandlerReturns(e)

SpecSub == InitSub /\ [][NextSub]_vars

\* the loop ended on a receive error that is context cancellation or broker closed
EndedGracefully ==
    /\ recvErr # NoErr
    /\ \/ "context.Canceled" \in recvErr.is
       \/ "redis.ErrClosed" \in recvErr.is

\* C10: Subscribe returns nil exactly when its loop ended on a receive error
\* that is context cancellation or broker closed; any other receive error is
\* returned unchanged; a failed handler invocation is the last one and its
\* error is what Subscribe returns
C10_SubscribeResult ==
    /\ subPc = "returned" =>
          /\ (subResult = NoErr) <=> EndedGracefully
          /\ (recvErr # NoErr /\ ~EndedGracefully) => subResult = recvErr
          /\ recvErr = NoErr =>
                (results # <<>> /\ subResult = results[Len(results)] /\ subResult # NoErr)
    /\ \A i \in 1..Len(results) :
          results[i] # NoErr => (i = Len(results) /\ subPc = "returned" /\ recvErr = NoErr)
    /\ Len(handled) = Len(results)
    /\ Len(handled) <= Len(received)

\* after one handled message the handler failed on the second, with an error
\* that wraps context.Canceled, and Subscribe returned that error
C10_Witness ==
    /\ subPc = "returned"
    /\ Len(received) = 2
    /\ results = <<NoErr, errEditCanceled>>
    /\ subResult = errEditCanceled

\* C11: a Subscribe call opens exactly one broker subscription, which stays
\* open while the loop runs and has been closed once Subscribe has returned,
\* whichever way the loop ended
C11_SubscriptionReleased ==
    /\ subPc = "idle" => (subsOpened = 0 /\ subsClosed = 0)
    /\ subPc \in {"receive", "handle"} => (subsOpened = 1 /\ subsClosed = 0)
    /\ subPc = "returned" => (subsOpened = 1 /\ subsClosed = 1)

\* Subscribe returned because the handler failed on the first message, and the
\* one subscription it opened is closed
C11_Witness ==
    /\ subPc = "returned"
    /\ recvErr = NoErr
    /\ results = <<errBoom>>
    /\ subsOpened = 1
    /\ subsClosed = 1

\* invocations of the handler that have started and not yet returned
HandlerInFlight == IF subPc = "handle" THEN 1 ELSE 0

\* C12: with a handler, the messages whose invocation has returned are the
\* received messages in broker order, each once; a message is received only
\* when no invocation is running, so at most one invocation is in flight and
\* it is for the message received last
C12_HandlerSequential ==
    ~handlerNil =>
        /\ Len(handled) + HandlerInFlight = Len(received)
        /\ HandlerInFlight <= 1
        /\ \A i \in 1..Len(handled) : handled[i] = received[i]

\* three messages were delivered, two different ones first; the first two
\* invocations have returned and the third is running
C12_Witness ==
    /\ ~handlerNil
    /\ subPc = "handle"
    /\ received = <<"m1", "m2", "m1">>
    /\ handled = <<"m1", "m2">>

-----------------------------------------------------------------------------
(* agentListener.handlePayload *)

\* the server process was not started and serves no request
NoServer ==
    /\ publicKey = "K1"
    /\ redisPrefix = <<>>
    /\ cfg = [Enabled |-> FALSE, Timeout |-> defaultInteractionTimeout,
              Handlers |-> [Commands |-> EmptyTable, Components |-> EmptyTable,
                            Modals |-> EmptyTable, Autocomplete |-> EmptyTable]]
    /\ dryRun = FALSE
    /\ srvState = "init"
    /\ startErr = ""
    /\ bindings = <<>>
    /\ handlers = EmptyTable
    /\ srvDryRun = FALSE
    /\ pubPrefix = normalizeChannelPrefix(redisPrefix)
    /\ InitRequests({})

\* bytes that are not JSON
NotJSON == [raw |-> "not-json"]

\* a JSON object without an agent field
ObjectWithoutAgent == [kind |-> handlerKindCommand, key |-> <<"h">>]

\* raw interactions an envelope may embed: with a token, with another token,
\* with an empty token, and empty bytes
RawInteractions ==
    { Body("2", "tok", <<"h">>), Body("2", "tk2", <<"h">>), Body("2", "", <<"h">>),
      <<>> }

ListenerEnvelope(agent, raw) ==
    [nil |-> FALSE, Agent |-> agent, Kind |-> handlerKindCommand, Key |-> <<"h">>,
     Interaction |-> raw, ReceivedAt |-> "now",
     TimeoutSeconds |-> defaultInteractionTimeout, Source |-> envelopeSource]

EnvelopeAgents == { <<>>, <<"c">>, <<"C">>, <<"x">>, <<"c", "x">> }

\* the payloads a listener may be handed
WirePayloads ==
    {NotJSON, ObjectWithoutAgent}
        \cup {MarshalEnvelope(ListenerEnvelope(a, r)) : a \in EnvelopeAgents,
                                                        r \in RawInteractions}

ListenerAgents == { <<"c">>, <<"C">>, <<"c", "X">> }
ApplicationIDs == {"app123", "app9"}

errInvalidJSON == [text |-> "invalid character", is |-> {}]
errUnexpectedEnd == [text |-> "unexpected end of JSON input", is |-> {}]
errMissingToken == [text |-> "interaction missing token", is |-> {}]
errEditFailed == [text |-> "edit failed", is |-> {"stubErr"}]
errFollowupFailed == [text |-> "followup failed", is |-> {"followupErr"}]

\* what an outbound call of the interaction client may return
ClientResults == {NoErr, errEditFailed, errFollowupFailed, errDeadline}

\* fmt.Errorf(msg + ": %w", err)
Wrapf(msg, err) == [text |-> msg \o ": " \o err.text, is |-> err.is]

\* a field of a JSON object, or the zero value when the object lacks it
Field(obj, name, zero) == IF name \in DOMAIN obj THEN obj[name] ELSE zero

\* json.Unmarshal(payload, &env) into a redisEnvelope
UnmarshalEnvelope(payload) ==
    IF "raw" \in DOMAIN payload
    THEN [err |-> errInvalidJSON, env |-> NoEnvelope]
    ELSE [err |-> NoErr,
          env |-> [nil |-> FALSE,
                   Agent |-> Field(payload, "agent", <<>>),
                   Kind |-> Field(payload, "kind", ""),
                   Key |-> Field(payload, "key", <<>>),
                   Interaction |-> Field(payload, "interaction", <<>>),
                   ReceivedAt |-> Field(payload, "received_at", ""),
                   TimeoutSeconds |-> Field(payload, "timeout_seconds", 0),
                   Source |-> Field(payload, "source", "")]]

\* json.Unmarshal(env.Interaction, &interaction)
UnmarshalInteraction(raw) ==
    IF Len(raw) < 2
    THEN [err |-> errUnexpectedEnd, Token |-> ""]
    ELSE [err |-> NoErr, Token |-> raw[2]]

\* a listener that takes every envelope as its own
AddressedToListener_Always(agentID, envAgent) == TRUE

\* strings.ToLower(env.Agent) = strings.ToLower(l.agentID)
AddressedToListener(agentID, envAgent) == ToLower(envAgent) = ToLower(agentID)

\* a listener that goes on without a token
TokenMissing_Never(token) == FALSE

\* interaction.Token == ""
TokenMissing(token) == token = ""

\* handlePayload up to its first outbound call: whether it goes on to the
\* edit, and otherwise what it returns
handlePayloadDecode(agentID, payload) ==
    LET d == UnmarshalEnvelope(payload)
    IN  IF d.err # NoErr THEN [proceed |-> FALSE, err |-> NoErr, token |-> ""]
        ELSE IF ~AddressedToListener(agentID, d.env.Agent)
        THEN [proceed |-> FALSE, err |-> NoErr, token |-> ""]
        ELSE LET i == UnmarshalInteraction(d.env.Interaction)
             IN  IF i.err # NoErr
                 THEN [proceed |-> FALSE, err |-> Wrapf("decode interaction", i.err),
                       token |-> ""]
                 ELSE IF TokenMissing(i.Token)
                 THEN [proceed |-> FALSE, err |-> errMissingToken, token |-> ""]
                 ELSE [proceed |-> TRUE, err |-> NoErr, token |-> i.Token]

\* a listener that sends the follow-up whatever the edit returned
AfterEdit_Continue(err) == [pc |-> "followup", err |-> NoErr]

\* handlePayload after EditOriginalInteractionResponse returned err
AfterEdit(err) ==
    IF err # NoErr
    THEN [pc |-> "done", err |-> Wrapf("edit original response", err)]
    ELSE [pc |-> "followup", err |-> NoErr]

\* what handlePayload returns after CreateFollowupMessage returned err
AfterFollowup(err) ==
    IF err # NoErr THEN Wrapf("create followup response", err) ELSE NoErr

\* newAgentListener(agentID, appID, client, output) has returned a listener
InitListen ==
    /\ NoServer
    /\ NoPublisherUse
    /\ NoSubscription
    /\ NoRegistry
    /\ NoSupervision
    /\ lsnAgent \in ListenerAgents
    /\ lsnAppID \in ApplicationIDs
    /\ lsnPc = "idle"
    /\ lsnPayload = NoPayload
    /\ lsnToken = ""
    /\ lsnCalls = <<>>
    /\ lsnResult = NoErr
    /\ lsnCount = 0

\* handlePayload is called with payload and runs up to its first outbound call
HandlePayload(payload) ==
    /\ lsnPc \in {"idle", "done"}
    /\ lsnCount < MaxPayloads
    /\ lsnCount' = lsnCount + 1
    /\ lsnPayload' = payload
    /\ lsnCalls' = <<>>
    /\ LET d == handlePayloadDecode(lsnAgent, payload)
       IN  /\ lsnPc' = IF d.proceed THEN "edit" ELSE "done"
           /\ lsnResult' = d.err
           /\ lsnToken' = d.token
    /\ UNCHANGED <<lsnAgent, lsnAppID>>
    /\ UNCHANGED notLsnVars

\* l.client.EditOriginalInteractionResponse(opCtx, l.applicationID, token, params)
\* returns e
EditOriginalInteractionResponse(e) ==
    /\ lsnPc = "edit"
    /\ lsnCalls' = Append(lsnCalls, [op |-> "edit", app |-> lsnAppID,
                                     token |-> lsnToken, err |-> e])
    /\ lsnPc' = AfterEdit(e).pc
    /\ lsnResult' = AfterEdit(e).err
    /\ UNCHANGED <<lsnAgent, lsnAppID, lsnPayload, lsnToken, lsnCount>>
    /\ UNCHANGED notLsnVars

\* l.client.CreateFollowupMessage(opCtx, l.applicationID, token, followup)
\* returns e, and handlePayload returns
CreateFollowupMessage(e) ==
    /\ lsnPc = "followup"
    /\ lsnCalls' = Append(lsnCalls, [op |-> "followup", app |-> lsnAppID,
                                     token |-> lsnToken, err |-> e])
    /\ lsnPc' = "done"
    /\ lsnResult' = AfterFollowup(e)
    /\ UNCHANGED <<lsnAgent, lsnAppID, lsnPayload, lsnToken, lsnCount>>
    /\ UNCHANGED notLsnVars

NextListen ==
    \/ \E p \in WirePayloads : HandlePayload(p)
    \/ \E e \in ClientResults : EditOriginalInteractionResponse(e)
    \/ \E e \in ClientResults : CreateFollowupMessage(e)

SpecListen == InitListen /\ [][NextListen]_vars

\* the payload is a JSON object, which is what decodes into an envelope
PayloadIsObject(p) == "raw" \notin DOMAIN p

\* the agent the payload's envelope names ("" when it names none)
PayloadAgent(p) == IF "agent" \in DOMAIN p THEN p.agent ELSE <<>>

\* the token of the interaction the payload's envelope embeds ("" when none)
PayloadToken(p) ==
    IF "interaction" \in DOMAIN p /\ Len(p.interaction) >= 2
    THEN p.interaction[2]
    ELSE ""

\* handlePayload was called with an envelope for the listener's agent
ForThisListener ==
    /\ lsnPc # "idle"
    /\ PayloadIsObject(lsnPayload)
    /\ EqualIgnoringCase(PayloadAgent(lsnPayload), lsnAgent)

\* C13: when the payload is not a decodable envelope, or its agent differs
\* from the listener's agent ignoring letter case, handlePayload has returned
\* nil and has made no outbound call
C13_ForeignPayloadIgnored ==
    (lsnPc # "idle" /\ ~ForThisListener) =>
        /\ lsnPc = "done"
        /\ lsnResult = NoErr
        /\ lsnCalls = <<>>

\* in its second call listener C was handed an envelope for agent
\* x that carries a token: it returned nil without any call
C13_Witness ==
    /\ lsnAgent = <<"C">>
    /\ lsnCount = 2
    /\ lsnPc = "done"
    /\ lsnPayload = MarshalEnvelope(ListenerEnvelope(<<"x">>, Body("2", "tok", <<"h">>)))
    /\ lsnResult = NoErr
    /\ lsnCalls = <<>>

\* C14: for an envelope for the listener's agent whose interaction has no
\* token, handlePayload has returned an error and has made neither the edit
\* call nor the follow-up call
C14_MissingTokenIsError ==
    (ForThisListener /\ PayloadToken(lsnPayload) = "") =>
        /\ lsnPc = "done"
        /\ lsnResult # NoErr
        /\ lsnCalls = <<>>

\* listener C was handed an envelope for agent c whose interaction has an
\* empty token: it returned the missing-token error, no call made
C14_Witness ==
    /\ lsnAgent = <<"C">>
    /\ lsnPc = "done"
    /\ lsnPayload = MarshalEnvelope(ListenerEnvelope(<<"c">>, Body("2", "", <<"h">>)))
    /\ lsnResult = errMissingToken
    /\ lsnCalls = <<>>

\* call is the outbound call op with the listener's application ID and the
\* token of the envelope
IsListenerCall(call, op) ==
    /\ call.op = op
    /\ call.app = lsnAppID
    /\ call.token = PayloadToken(lsnPayload)

\* res is an error that wraps cause
WrapsCause(res, cause) ==
    /\ res # NoErr
    /\ res # cause
    /\ \A t \in cause.is : errorsIs(res, t)

\* C15: for an envelope for the listener's agent that carries a token,
\* handlePayload calls the edit once and then the follow-up once, both with
\* the listener's application ID and the envelope's token; a failed edit is
\* the only call; the error of a failed call is returned wrapped, and a call
\* is never repeated
C15_EditThenFollowup ==
    (ForThisListener /\ PayloadToken(lsnPayload) # "") =>
        /\ lsnPc = "edit" => lsnCalls = <<>>
        /\ lsnPc = "followup" =>
              /\ Len(lsnCalls) = 1
              /\ IsListenerCall(lsnCalls[1], "edit")
              /\ lsnCalls[1].err = NoErr
        /\ lsnPc = "done" =>
              /\ Len(lsnCalls) \in {1, 2}
              /\ IsListenerCall(lsnCalls[1], "edit")
              /\ lsnCalls[1].err # NoErr =>
                    (Len(lsnCalls) = 1 /\ WrapsCause(lsnResult, lsnCalls[1].err))
              /\ lsnCalls[1].err = NoErr =>
                    /\ Len(lsnCalls) = 2
                    /\ IsListenerCall(lsnCalls[2], "followup")
                    /\ lsnCalls[2].err # NoErr => WrapsCause(lsnResult, lsnCalls[2].err)
                    /\ lsnCalls[2].err = NoErr => lsnResult = NoErr

\* listener c,X of application app9 was handed an envelope for agent c,x with
\* token tk2: the edit succeeded, the follow-up failed, and the follow-up's
\* error came back wrapped
C15_Witness ==
    /\ lsnAgent = <<"c", "X">>
    /\ lsnAppID = "app9"
    /\ lsnPc = "done"
    /\ PayloadAgent(lsnPayload) = <<"c", "x">>
    /\ lsnCalls = << [op |-> "edit", app |-> "app9", token |-> "tk2", err |-> NoErr],
                     [op |-> "followup", app |-> "app9", token |-> "tk2",
                      err |-> errFollowupFailed] >>
    /\ errorsIs(lsnResult, "followupErr")

-----------------------------------------------------------------------------
(* agentRegistry: Register, Unregister, Heartbeat *)

\* 2 * time.Minute, in seconds
defaultRegistryTTL == 120

registryKeySuffix == <<"registry">>

\* the prefix newAgentRegistry computes for cfg.ChannelPrefix
newAgentRegistryPrefix(cfgPrefix) ==
    normalizeChannelPrefix(cfgPrefix) \o <<":">> \o registryKeySuffix

\* the ttl newAgentRegistry keeps
newAgentRegistryTTL(ttl) == IF ttl <= 0 THEN defaultRegistryTTL ELSE ttl

\* the key built from the agent as given, without strings.ToLower
registryKey_NoLower(prefix, agent) == prefix \o <<":">> \o agent

\* agentRegistry.key: fmt.Sprintf("%s:%s", r.prefix, strings.ToLower(agent))
registryKey(prefix, agent) == prefix \o <<":">> \o ToLower(agent)

errAgentRequired == [text |-> "agent is required for registry entry", is |-> {}]
errBroker == [text |-> "connection refused", is |-> {"net.OpError"}]

\* agentRegistry.Register for info.Agent = agent; setOK is whether client.Set
\* succeeds.  Returns the error and the client calls made.
Register(prefix, ttl, agent, setOK) ==
    IF TrimSpace(agent) = <<>>
    THEN [err |-> errAgentRequired, cmds |-> <<>>]
    ELSE [err |-> IF setOK THEN NoErr ELSE Wrapf("store registry info", errBroker),
          cmds |-> <<[op |-> "SET", key |-> registryKey(prefix, agent),
                      agent |-> agent, ttl |-> ttl, ok |-> setOK]>>]

\* Unregister returning nil without asking the client for anything
Unregister_NoDelete(prefix, agent, delOK) == [err |-> NoErr, cmds |-> <<>>]

\* agentRegistry.Unregister; delOK is whether client.Del succeeds
Unregister(prefix, agent, delOK) ==
    IF TrimSpace(agent) = <<>>
    THEN [err |-> NoErr, cmds |-> <<>>]
    ELSE [err |-> IF delOK THEN NoErr ELSE Wrapf("remove registry entry", errBroker),
          cmds |-> <<[op |-> "DEL", key |-> registryKey(prefix, agent),
                      agent |-> agent, ttl |-> 0, ok |-> delOK]>>]

\* Redis after the client calls cmds: SET replaces the entry under the key,
\* DEL removes it, a failed call changes nothing
RECURSIVE RedisApply(_, _)
RedisApply(store, cmds) ==
    IF cmds = <<>> THEN store
    ELSE LET c == Head(cmds)
             rest == {e \in store : e.key # c.key}
             next == IF ~c.ok THEN store
                     ELSE IF c.op = "SET"
                     THEN rest \cup {[key |-> c.key, agent |-> c.agent, ttl |-> c.ttl]}
                     ELSE rest
         IN  RedisApply(next, Tail(cmds))

\* the client calls cmds, marked with the goroutine that made them
MadeBy(cmds, who) ==
    [i \in 1..Len(cmds) |->
        [op |-> cmds[i].op, key |-> cmds[i].key, agent |-> cmds[i].agent,
         ttl |-> cmds[i].ttl, ok |-> cmds[i].ok, by |-> who]]

\* whether a client call made under a context with error ctxErr can succeed:
\* the broker answers, the client is open and the context is not done
ClientAnswers(ctxErr, brokerOK) == brokerOK /\ ~regClosed /\ ctxErr = NoErr

\* a heartbeat that gives up when Register fails
HeartbeatAfterRegister_StopOnError(err) == IF err # NoErr THEN "returned" ELSE "select"

\* Heartbeat after the Register of a tick returned err: the error is dropped
HeartbeatAfterRegister(err) == "select"

\* what Heartbeat returns once ctx.Done() is chosen: ctx.Err()
HeartbeatReturnValue(ctxErr) == ctxErr

\* cfg.ChannelPrefix and ttl (seconds) a registry is created with
RegistryConfigs ==
    { [prefix |-> <<>>, ttl |-> 0], [prefix |-> <<" ">>, ttl |-> 60],
      [prefix |-> <<"P">>, ttl |-> 60] }

RegistryAgents == { <<>>, <<" ">>, <<"c">>, <<"C">>, <<"x">> }

\* newAgentRegistry(cfg, ttl) has returned a registry
InitRegistry(configs) ==
    /\ \E c \in configs :
          /\ redisPrefix = c.prefix
          /\ regTTL = newAgentRegistryTTL(c.ttl)
    /\ regPrefix = newAgentRegistryPrefix(redisPrefix)
    /\ regClosed = FALSE
    /\ regStore = {}
    /\ regCmds = <<>>
    /\ regCalls = <<>>

\* the server variables of a process that only uses the registry
RegistryOnly ==
    /\ publicKey = "K1"
    /\ cfg = [Enabled |-> FALSE, Timeout |-> defaultInteractionTimeout,
              Handlers |-> [Commands |-> EmptyTable, Components |-> EmptyTable,
                            Modals |-> EmptyTable, Autocomplete |-> EmptyTable]]
    /\ dryRun = FALSE
    /\ srvState = "init"
    /\ startErr = ""
    /\ bindings = <<>>
    /\ handlers = EmptyTable
    /\ srvDryRun = FALSE
    /\ pubPrefix = normalizeChannelPrefix(redisPrefix)
    /\ InitRequests({})
    /\ NoPublisherUse
    /\ NoSubscription
    /\ NoListener

InitReg ==
    /\ InitRegistry(RegistryConfigs)
    /\ RegistryOnly
    /\ NoSupervision
    /\ hbPc = "none"
    /\ hbCtx = NoErr
    /\ hbInfo = <<>>
    /\ hbTicks = 0
    /\ hbResult = NoErr
    /\ runPc = "none"
    /\ runAgent = <<>>
    /\ baseCtx = NoErr
    /\ sigCtx = NoErr
    /\ runDefers = <<>>
    /\ runDone = <<>>
    /\ runErr = NoErr

\* one direct call r.Register(context.Background(), info) with info.Agent = agent
RegisterCall(agent, brokerOK) ==
    /\ Len(regCalls) < MaxRegistryCalls
    /\ LET r == Register(regPrefix, regTTL, agent, ClientAnswers(NoErr, brokerOK))
       IN  /\ regCmds' = regCmds \o MadeBy(r.cmds, "caller")
           /\ regStore' = RedisApply(regStore, r.cmds)
           /\ regCalls' = Append(regCalls,
                  [op |-> "Register", agent |-> agent, err |-> r.err, cmds |-> r.cmds,
                   before |-> regStore, after |-> RedisApply(regStore, r.cmds)])
    /\ UNCHANGED <<regPrefix, regTTL, regClosed>>
    /\ UNCHANGED <<hbVars, runVars, notRegVars>>

\* one direct call r.Unregister(context.Background(), agent)
UnregisterCall(agent, brokerOK) ==
    /\ Len(regCalls) < MaxRegistryCalls
    /\ LET r == Unregister(regPrefix, agent, ClientAnswers(NoErr, brokerOK))
       IN  /\ regCmds' = regCmds \o MadeBy(r.cmds, "caller")
           /\ regStore' = RedisApply(regStore, r.cmds)
           /\ regCalls' = Append(regCalls,
                  [op |-> "Unregister", agent |-> agent, err |-> r.err, cmds |-> r.cmds,
                   before |-> regStore, after |-> RedisApply(regStore, r.cmds)])
    /\ UNCHANGED <<regPrefix, regTTL, regClosed>>
    /\ UNCHANGED <<hbVars, runVars, notRegVars>>

NextReg ==
    \/ \E a \in RegistryAgents, ok \in BOOLEAN : RegisterCall(a, ok)
    \/ \E a \in RegistryAgents, ok \in BOOLEAN : UnregisterCall(a, ok)

SpecReg == InitReg /\ [][NextReg]_vars

\* go r.Heartbeat(ctx, info, interval) with info.Agent = agent: the goroutine
\* creates its ticker and waits in the select
HeartbeatStart(agent) ==
    /\ hbPc = "none"
    /\ hbPc' = "select"
    /\ hbInfo' = agent
    /\ UNCHANGED <<hbCtx, hbTicks, hbResult>>
    /\ UNCHANGED <<regVars, runVars, notRegVars>>

\* the select takes a tick: r.Register(ctx, info), its error dropped
HeartbeatTick(brokerOK) ==
    /\ hbPc = "select"
    /\ hbTicks < MaxTicks
    /\ hbTicks' = hbTicks + 1
    /\ LET r == Register(regPrefix, regTTL, hbInfo, ClientAnswers(hbCtx, brokerOK))
       IN  /\ regCmds' = regCmds \o MadeBy(r.cmds, "heartbeat")
           /\ regStore' = RedisApply(regStore, r.cmds)
           /\ hbPc' = HeartbeatAfterRegister(r.err)
           /\ hbResult' = IF HeartbeatAfterRegister(r.err) = "returned" THEN r.err
                          ELSE hbResult
    /\ UNCHANGED <<hbCtx, hbInfo>>
    /\ UNCHANGED <<regPrefix, regTTL, regClosed, regCalls>>
    /\ UNCHANGED <<runVars, notRegVars>>

\* the heartbeat's context ends with error e (cancelled, or its deadline passed)
HeartbeatContextDone(e) ==
    /\ runPc = "none"
    /\ hbPc = "select"
    /\ hbCtx = NoErr
    /\ hbCtx' = e
    /\ UNCHANGED <<hbPc, hbInfo, hbTicks, hbResult>>
    /\ UNCHANGED <<regVars, runVars, notRegVars>>

\* the select takes ctx.Done(): Heartbeat returns ctx.Err()
HeartbeatReturn ==
    /\ hbPc = "select"
    /\ hbCtx # NoErr
    /\ hbPc' = "returned"
    /\ hbResult' = HeartbeatReturnValue(hbCtx)
    /\ UNCHANGED <<hbCtx, hbInfo, hbTicks>>
    /\ UNCHANGED <<regVars, runVars, notRegVars>>

NextHb ==
    \/ \E a \in RegistryAgents : HeartbeatStart(a)
    \/ \E ok \in BOOLEAN : HeartbeatTick(ok)
    \/ \E e \in {errCanceled, errDeadline} : HeartbeatContextDone(e)
    \/ HeartbeatReturn

SpecHb == InitReg /\ [][NextHb]_vars

-----------------------------------------------------------------------------
(* runAgentListen, from the creation of the registry to its return *)

RunAgents == { <<"c">>, <<"C">>, <<" ">> }

RunConfigs == { [prefix |-> <<>>, ttl |-> defaultRegistryTTL] }

\* (&arcer.CLIError{Msg: msg}).WithCause(err)
WithCause(msg, err) == Wrapf(msg, err)

\* the calls deferred before Register: redisSub.Close, then registry.Close
\* (the last deferred runs first)
DefersBeforeRegister == <<"registry.Close", "redisSub.Close">>

\* runAgentListen never cancelling the heartbeat's context
DefersAfterRegister_NoCancel == <<"stop", "registry.Unregister">>

\* the calls deferred after Register: hbCancel, then registry.Unregister, then
\* stop (the last deferred runs first)
DefersAfterRegister == <<"stop", "registry.Unregister", "hbCancel">>

\* a context that is done stays as it is; otherwise it becomes cancelled
Cancelled(ctxErr) == IF ctxErr = NoErr THEN errCanceled ELSE ctxErr

\* newRedisSubscriberFn, newInteractionClientFn and newAgentRegistryFn have
\* returned; redisSub.Close and registry.Close are deferred
InitRun ==
    /\ InitRegistry(RunConfigs)
    /\ publicKey = "K1"
    /\ cfg = [Enabled |-> FALSE, Timeout |-> defaultInteractionTimeout,
              Handlers |-> [Commands |-> EmptyTable, Components |-> EmptyTable,
                            Modals |-> EmptyTable, Autocomplete |-> EmptyTable]]
    /\ dryRun = FALSE
    /\ srvState = "init"
    /\ startErr = ""
    /\ bindings = <<>>
    /\ handlers = EmptyTable
    /\ srvDryRun = FALSE
    /\ pubPrefix = normalizeChannelPrefix(redisPrefix)
    /\ InitRequests({})
    /\ runAgent \in RunAgents
    /\ pubCalls = 0
    /\ lastCall = [env |-> NoEnvelope, err |-> "", wrote |-> 0]
    /\ subMade = TRUE
    /\ subAgent = runAgent
    /\ subChannel = SubscriberChannel(redisPrefix, runAgent)
    /\ NoSubscription
    /\ NoListener
    /\ NoSupervision
    /\ hbPc = "none"
    /\ hbCtx = NoErr
    /\ hbInfo = <<>>
    /\ hbTicks = 0
    /\ hbResult = NoErr
    /\ runPc = "register"
    /\ baseCtx = NoErr
    /\ sigCtx = NoErr
    /\ runDefers = DefersBeforeRegister
    /\ runDone = <<>>
    /\ runErr = NoErr

\* registry.Register(baseCtx, info); on success the heartbeat goroutine is
\* started under a child of baseCtx, hbCancel, registry.Unregister and stop are
\* deferred and the signal context is created
RunRegister(brokerOK) ==
    /\ runPc = "register"
    /\ LET r == Register(regPrefix, regTTL, runAgent, ClientAnswers(baseCtx, brokerOK))
       IN  /\ regCmds' = regCmds \o MadeBy(r.cmds, "caller")
           /\ regStore' = RedisApply(regStore, r.cmds)
           /\ IF r.err # NoErr
              THEN /\ runErr' = WithCause("failed to register agent", r.err)
                   /\ runPc' = "defers"
                   /\ UNCHANGED <<hbVars, sigCtx, runDefers>>
              ELSE /\ runPc' = "listen"
                   /\ hbPc' = "select"
                   /\ hbInfo' = runAgent
                   /\ hbCtx' = baseCtx
                   /\ sigCtx' = baseCtx
                   /\ runDefers' = DefersAfterRegister \o runDefers
                   /\ UNCHANGED <<hbTicks, hbResult, runErr>>
    /\ UNCHANGED <<regPrefix, regTTL, regClosed, regCalls>>
    /\ UNCHANGED <<runAgent, baseCtx, runDone>>
    /\ UNCHANGED notRegVars

\* the command's context is cancelled, and with it the contexts derived from it
BaseCancel ==
    /\ runPc \in {"register", "listen"}
    /\ baseCtx = NoErr
    /\ baseCtx' = errCanceled
    /\ sigCtx' = IF runPc = "listen" THEN Cancelled(sigCtx) ELSE sigCtx
    /\ hbCtx' = IF hbPc # "none" THEN Cancelled(hbCtx) ELSE hbCtx
    /\ UNCHANGED <<hbPc, hbInfo, hbTicks, hbResult>>
    /\ UNCHANGED <<runPc, runAgent, runDefers, runDone, runErr>>
    /\ UNCHANGED <<regVars, notRegVars>>

\* the process receives os.Interrupt: only the signal context is cancelled
Interrupt ==
    /\ runPc = "listen"
    /\ sigCtx = NoErr
    /\ sigCtx' = errCanceled
    /\ UNCHANGED <<runPc, runAgent, baseCtx, runDefers, runDone, runErr>>
    /\ UNCHANGED <<regVars, hbVars, notRegVars>>

\* redisSub.Subscribe(ctx, handler) is called
RunSubscribe == runPc = "listen" /\ SubscribeBegin(FALSE)

RunReceiveMessage(m) == runPc = "listen" /\ ReceiveMessage(m)

\* ReceiveMessage fails; it reports cancellation only when ctx is cancelled
RunReceiveError(e) ==
    /\ runPc = "listen"
    /\ errorsIs(e, "context.Canceled") => sigCtx # NoErr
    /\ ReceiveError(e)

RunHandlerReturns(e) == runPc = "listen" /\ HandlerReturns(e)

\* Subscribe has returned: runAgentListen sets its result and starts returning
RunSubscribeReturned ==
    /\ runPc = "listen"
    /\ subPc = "returned"
    /\ runErr' = IF subResult # NoErr
                 THEN WithCause("listener exited with error", subResult)
                 ELSE NoErr
    /\ runPc' = "defers"
    /\ UNCHANGED <<runAgent, baseCtx, sigCtx, runDefers, runDone>>
    /\ UNCHANGED <<regVars, hbVars, notRegVars>>

\* the next deferred call runs
RunDefer(brokerOK) ==
    /\ runPc = "defers"
    /\ runDefers # <<>>
    /\ runDefers' = Tail(runDefers)
    /\ runDone' = Append(runDone, Head(runDefers))
    /\ LET d == Head(runDefers)
           u == Unregister(regPrefix, runAgent, ClientAnswers(NoErr, brokerOK))
       IN  /\ sigCtx' = IF d = "stop" THEN Cancelled(sigCtx) ELSE sigCtx
           /\ hbCtx' = IF d = "hbCancel" THEN Cancelled(hbCtx) ELSE hbCtx
           /\ regClosed' = IF d = "registry.Close" THEN TRUE ELSE regClosed
           /\ regCmds' = IF d = "registry.Unregister"
                         THEN regCmds \o MadeBy(u.cmds, "caller")
                         ELSE regCmds
           /\ regStore' = IF d = "registry.Unregister"
                          THEN RedisApply(regStore, u.cmds)
                          ELSE regStore
    /\ UNCHANGED <<regPrefix, regTTL, regCalls>>
    /\ UNCHANGED <<hbPc, hbInfo, hbTicks, hbResult>>
    /\ UNCHANGED <<runPc, runAgent, baseCtx, runErr>>
    /\ UNCHANGED notRegVars

\* every deferred call has run: runAgentListen returns
RunReturn ==
    /\ runPc = "defers"
    /\ runDefers = <<>>
    /\ runPc' = "returned"
    /\ UNCHANGED <<runAgent, baseCtx, sigCtx, runDefers, runDone, runErr>>
    /\ UNCHANGED <<regVars, hbVars, notRegVars>>

NextRun ==
    \/ \E ok \in BOOLEAN : RunRegister(ok)
    \/ BaseCancel
    \/ Interrupt
    \/ RunSubscribe
    \/ \E m \in Payloads : RunReceiveMessage(m)
    \/ \E e \in ReceiveErrors : RunReceiveError(e)
    \/ \E e \in HandlerResults : RunHandlerReturns(e)
    \/ RunSubscribeReturned
    \/ \E ok \in BOOLEAN : RunDefer(ok)
    \/ RunReturn
    \/ \E ok \in BOOLEAN : HeartbeatTick(ok)
    \/ HeartbeatReturn

SpecRun == InitRun /\ [][NextRun]_vars

\* k is {prefix}:registry:{lowercase agent}, with the default for a blank prefix
IsRegistryKey(k, prefix, agent) ==
    LET pre == IF AllSpaces(prefix) THEN <<"arc:discord">> ELSE prefix
        n == Len(pre)
    IN  /\ Len(k) = n + 3 + Len(agent)
        /\ SubSeq(k, 1, n) = pre
        /\ SubSeq(k, n + 1, n + 3) = <<":", "registry", ":">>
        /\ \A i \in 1..Len(agent) :
              SameLetter(k[n + 3 + i], agent[i]) /\ ~IsUpper(k[n + 3 + i])

\* Redis holds an entry for the agent
EntryPresent(agent) == \E e \in regStore : IsRegistryKey(e.key, redisPrefix, agent)

\* runAgentListen returned nil after its Subscribe ended on the cancellation of
\* its context, by os.Interrupt or by the command's context
GracefulShutdown ==
    /\ runPc = "returned"
    /\ runErr = NoErr
    /\ errorsIs(recvErr, "context.Canceled")

\* the deferred Unregister's DEL was answered by the broker
UnregisterAnswered == \E i \in 1..Len(regCmds) : regCmds[i].op = "DEL" /\ regCmds[i].ok

\* the heartbeat wrote the entry after the deferred Unregister deleted it
RegisteredAfterUnregister ==
    \E i, j \in 1..Len(regCmds) :
        /\ i < j
        /\ regCmds[i].op = "DEL" /\ regCmds[i].ok
        /\ regCmds[j].op = "SET" /\ regCmds[j].ok /\ regCmds[j].by = "heartbeat"

\* C16: once runAgentListen has returned from a graceful shutdown in which the
\* broker answered the Unregister, the agent's registry key is absent and no
\* heartbeat Register has written it after the Unregister
C16_Original ==
    (GracefulShutdown /\ UnregisterAnswered) =>
        /\ ~EntryPresent(runAgent)
        /\ ~RegisteredAfterUnregister

\* runAgentListen was left through Subscribe: Subscribe was called and returned
LeftThroughSubscribe == runPc = "returned" /\ subPc = "returned"

\* client calls made for the agent's key by runAgentListen itself
CallerCmds(op) ==
    {i \in 1..Len(regCmds) :
        /\ regCmds[i].op = op
        /\ regCmds[i].by = "caller"
        /\ IsRegistryKey(regCmds[i].key, redisPrefix, runAgent)}

\* C38: one event whose handling fails ends the Subscribe loop and makes
\* runAgentListen exit with an error: the failed event is the last one the
\* process handles, Subscribe returns the handler's error whatever it wraps,
\* and runAgentListen returns it wrapped as "listener exited with error".
C38_HandlerErrorEndsListener ==
    \A i \in 1..Len(results) :
        results[i] # NoErr =>
            /\ i = Len(results)
            /\ Len(handled) = i
            /\ subPc = "returned"
            /\ subResult = results[i]
            /\ runPc \in {"listen", "defers", "returned"}
            /\ runPc \in {"defers", "returned"} =>
                  /\ runErr # NoErr
                  /\ runErr.text = "listener exited with error: " \o results[i].text
                  /\ WrapsCause(runErr, results[i])

\* the second event failed with an error that wraps context.Canceled, a third
\* message was never received, and runAgentListen returned the error
C38_Witness ==
    /\ runPc = "returned"
    /\ Len(results) = 2
    /\ results[1] = NoErr
    /\ results[2] = errEditCanceled
    /\ Len(received) = 2
    /\ runErr # NoErr

\* C17: Subscribe is not called before the agent's Register has succeeded; and
\* when runAgentListen has returned after its Subscribe returned, with nil or
\* with an error, the subscriber was closed, Unregister was called, the
\* heartbeat's context is cancelled and the registry client is closed
C17_RegisterFirstCleanupLast ==
    /\ subPc # "idle" =>
          (regCmds # <<>> /\ 1 \in CallerCmds("SET") /\ regCmds[1].ok)
    /\ LeftThroughSubscribe =>
          /\ \E i \in 1..Len(runDone) : runDone[i] = "redisSub.Close"
          /\ \E i \in 1..Len(runDone) : runDone[i] = "registry.Unregister"
          /\ CallerCmds("DEL") # {}
          /\ hbCtx # NoErr
          /\ regClosed
          /\ runDefers = <<>>

\* the listener failed on its second message while the process had not been
\* interrupted; runAgentListen returned the wrapped error after its cleanup
C17_Witness ==
    /\ LeftThroughSubscribe
    /\ runAgent = <<"C">>
    /\ results = <<NoErr, errBoom>>
    /\ runErr = WithCause("listener exited with error", errBoom)
    /\ baseCtx = NoErr
    /\ hbCtx = errCanceled
    /\ regClosed

\* the entries of store for the agent, in whatever letter case it is written
EntriesFor(store, agent) == {e \in store : IsRegistryKey(e.key, redisPrefix, agent)}

\* every client call the registry call made was answered by the broker
Answered(call) == \A i \in 1..Len(call.cmds) : call.cmds[i].ok

\* C18: an Unregister that the broker answers returns no error and leaves no
\* entry for the agent, whether or not there was one; when there was none,
\* because the agent was never registered or was unregistered before, the
\* registry is left as it was
C18_UnregisterIdempotent ==
    \A i \in 1..Len(regCalls) :
        (regCalls[i].op = "Unregister" /\ Answered(regCalls[i])) =>
            /\ regCalls[i].err = NoErr
            /\ EntriesFor(regCalls[i].after, regCalls[i].agent) = {}
            /\ EntriesFor(regCalls[i].before, regCalls[i].agent) = {} =>
                  regCalls[i].after = regCalls[i].before

\* agent c was registered and then unregistered twice, the second time as C;
\* neither Unregister failed and no entry is left
C18_Witness ==
    /\ Len(regCalls) = 3
    /\ regCalls[1].op = "Register" /\ regCalls[1].agent = <<"c">>
    /\ regCalls[1].after # {}
    /\ regCalls[2].op = "Unregister" /\ regCalls[2].agent = <<"c">>
    /\ regCalls[3].op = "Unregister" /\ regCalls[3].agent = <<"C">>
    /\ regCalls[2].err = NoErr /\ regCalls[3].err = NoErr
    /\ Len(regCalls[3].cmds) = 1 /\ regCalls[3].cmds[1].ok
    /\ regStore = {}

\* C19: Register with a blank agent fails and calls the client for nothing;
\* Register with any other agent makes exactly one SET, of the key
\* {prefix}:registry:{lowercase agent} with the registry's TTL, after which that
\* key holds the one entry of the agent; Unregister makes one DEL of the key
\* of its agent, the same key for every letter case of the agent
C19_RegistryKey ==
    \A i \in 1..Len(regCalls) :
        LET call == regCalls[i]
        IN  /\ (call.op = "Register" /\ AllSpaces(call.agent)) =>
                  (call.err # NoErr /\ call.cmds = <<>> /\ call.after = call.before)
            /\ (call.op = "Register" /\ ~AllSpaces(call.agent)) =>
                  /\ Len(call.cmds) = 1
                  /\ call.cmds[1].op = "SET"
                  /\ IsRegistryKey(call.cmds[1].key, redisPrefix, call.agent)
                  /\ call.cmds[1].ttl = regTTL
                  /\ call.cmds[1].ok =>
                        /\ call.err = NoErr
                        /\ Cardinality(EntriesFor(call.after, call.agent)) = 1
                        /\ \A e \in EntriesFor(call.after, call.agent) : e.ttl = regTTL
            /\ (call.op = "Unregister" /\ ~AllSpaces(call.agent)) =>
                  /\ Len(call.cmds) = 1
                  /\ call.cmds[1].op = "DEL"
                  /\ IsRegistryKey(call.cmds[1].key, redisPrefix, call.agent)
                  /\ \A j \in 1..(i - 1) :
                        (/\ regCalls[j].op = "Register"
                         /\ regCalls[j].cmds # <<>>
                         /\ EqualIgnoringCase(regCalls[j].agent, call.agent))
                            => call.cmds[1].key = regCalls[j].cmds[1].key

\* under prefix P and a ttl of 60 seconds, a Register without agent failed, a
\* Register of C wrote P:registry:c, and an Unregister of c deleted that key
C19_Witness ==
    /\ redisPrefix = <<"P">>
    /\ Len(regCalls) = 3
    /\ regCalls[1].op = "Register" /\ regCalls[1].agent = <<>>
    /\ regCalls[1].err = errAgentRequired
    /\ regCalls[2].op = "Register" /\ regCalls[2].agent = <<"C">>
    /\ regCalls[2].after =
          {[key |-> <<"P", ":", "registry", ":", "c">>, agent |-> <<"C">>, ttl |-> 60]}
    /\ regCalls[3].op = "Unregister" /\ regCalls[3].agent = <<"c">>
    /\ regCalls[3].err = NoErr
    /\ regStore = {}

\* the heartbeat's Set calls
HeartbeatSets == {i \in 1..Len(regCmds) : regCmds[i].by = "heartbeat"}

\* what holds of a heartbeat at every moment: it has called Set once per tick
\* taken (never, when its agent is blank), each time for the agent's key with
\* the registry's TTL; and it has returned only with its context done, and
\* then with the context's error
HeartbeatSafe ==
    /\ Cardinality(HeartbeatSets) = IF AllSpaces(hbInfo) THEN 0 ELSE hbTicks
    /\ \A i \in HeartbeatSets :
          /\ regCmds[i].op = "SET"
          /\ IsRegistryKey(regCmds[i].key, redisPrefix, hbInfo)
          /\ regCmds[i].ttl = regTTL
    /\ hbPc = "returned" => (hbCtx # NoErr /\ hbResult = hbCtx)

\* the heartbeat's select picks among its ready cases at random, and a tick is
\* ready only once per interval: a done context is eventually taken
SpecHbFair == SpecHb /\ WF_vars(HeartbeatReturn)

\* C20: Heartbeat registers once on every tick and writes nothing otherwise, a
\* failed Register does not end it, and once its context is done it returns,
\* with the context's error
C20_HeartbeatLoop ==
    /\ []HeartbeatSafe
    /\ (hbPc = "select" /\ hbCtx # NoErr) ~> (hbPc = "returned")

\* the Register of the first tick failed, the second tick registered agent C,
\* then the context's deadline passed and Heartbeat returned that error
C20_Witness ==
    /\ hbInfo = <<"C">>
    /\ hbTicks = 2
    /\ Len(regCmds) = 2
    /\ ~regCmds[1].ok
    /\ regCmds[2].ok
    /\ regStore # {}
    /\ hbPc = "returned"
    /\ hbResult = errDeadline


-----------------------------------------------------------------------------
(* Tunnel supervisor: resolveTunnelProvider *)

\* number of resolveTunnelProvider calls explored by SpecResolve
MaxResolveCalls == 2

nameNone == <<"n", "o", "n", "e">>
nameNgrok == <<"n", "g", "r", "o", "k">>
nameLocaltunnel == <<"l", "o", "c", "a", "l", "t", "u", "n", "n", "e", "l">>
nameAuto == <<"a", "u", "t", "o">>

\* tunnel.provider settings a configuration can hold
ProviderSettings ==
    { <<>>, <<" ">>, nameNone, <<"N">> \o Tail(nameNone),
      nameNgrok, <<"N">> \o Tail(nameNgrok), <<" ">> \o nameNgrok,
      nameLocaltunnel, <<"L">> \o Tail(nameLocaltunnel),
      nameAuto, <<"A">> \o Tail(nameAuto), nameAuto \o <<" ">>,
      <<"l", "t">>, nameNgrok \o <<"2">> }

errNoBinary ==
    "no supported tunnel binary found (install ngrok or localtunnel)"
errUnsupportedProvider == "unsupported tunnel provider"

\* hasBinary: lookPath finds the binary
hasBinary(name, path) == name \in path

\* resolveTunnelProvider(provider), with the binaries lookPath finds
resolveTunnelProvider_PreferLt(provider, path) ==
    LET p == ToLower(TrimSpace(provider)) IN
    CASE p \in {<<>>, nameNone} -> [provider |-> <<>>, err |-> ""]
      [] p \in {nameNgrok, nameLocaltunnel} -> [provider |-> p, err |-> ""]
      [] p = nameAuto ->
            IF hasBinary("lt", path)
            THEN [provider |-> nameLocaltunnel, err |-> ""]
            ELSE IF hasBinary("ngrok", path)
                 THEN [provider |-> nameNgrok, err |-> ""]
                 ELSE [provider |-> <<>>, err |-> errNoBinary]
      [] OTHER -> [provider |-> <<>>, err |-> errUnsupportedProvider]

resolveTunnelProvider(provider, path) ==
    LET p == ToLower(TrimSpace(provider)) IN
    CASE p \in {<<>>, nameNone} -> [provider |-> <<>>, err |-> ""]
      [] p \in {nameNgrok, nameLocaltunnel} -> [provider |-> p, err |-> ""]
      [] p = nameAuto ->
            IF hasBinary("ngrok", path)
            THEN [provider |-> nameNgrok, err |-> ""]
            ELSE IF hasBinary("lt", path)
                 THEN [provider |-> nameLocaltunnel, err |-> ""]
                 ELSE [provider |-> <<>>, err |-> errNoBinary]
      [] OTHER -> [provider |-> <<>>, err |-> errUnsupportedProvider]

\* the server variables of a process that only uses the tunnel supervisor
SupervisionOnly ==
    /\ redisPrefix = <<>>
    /\ RegistryOnly
    /\ NoRegistry

InitResolve ==
    /\ SupervisionOnly
    /\ NoDaemon
    /\ NoStart
    /\ onPath \in SUBSET {"ngrok", "lt"}
    /\ resCalls = <<>>
    /\ NoTunnel

ResolveCall(provider) ==
    /\ Len(resCalls) < MaxResolveCalls
    /\ resCalls' = Append(resCalls, [provider |-> provider, path |-> onPath,
                                     out |-> resolveTunnelProvider(provider, onPath)])
    /\ UNCHANGED <<onPath, tunVars, dmnVars, notSupVars>>

NextResolve ==
    \/ \E provider \in ProviderSettings : ResolveCall(provider)

SpecResolve == InitResolve /\ [][NextResolve]_vars

\* the provider names as a user can write them: any case, spaces around
Spells(provider, name) ==
    /\ \E i, j \in 1..Len(provider) :
          /\ j - i + 1 = Len(name)
          /\ \A k \in 1..Len(provider) :
                IF k < i \/ k > j THEN provider[k] = " "
                ELSE LowerChar(provider[k]) = name[k - i + 1]

Blank(provider) == \A k \in 1..Len(provider) : provider[k] = " "

\* C21: resolveTunnelProvider returns an explicit provider name (ngrok,
\* localtunnel) unchanged and the empty provider for "" and "none"; for "auto"
\* it returns ngrok whenever the ngrok binary is found, localtunnel only when
\* ngrok is not found and lt is, and an error when neither is found; any other
\* name is an error.
C21_ResolveProvider ==
    \A i \in 1..Len(resCalls) :
        LET c == resCalls[i]
            explicit == \E n \in {nameNgrok, nameLocaltunnel} : Spells(c.provider, n)
            none == Blank(c.provider) \/ Spells(c.provider, nameNone)
            auto == Spells(c.provider, nameAuto)
        IN  /\ c.provider \in {nameNgrok, nameLocaltunnel}
                => c.out = [provider |-> c.provider, err |-> ""]
            /\ explicit
                => c.out.err = "" /\ Spells(c.provider, c.out.provider)
            /\ none => c.out = [provider |-> <<>>, err |-> ""]
            /\ auto /\ "ngrok" \in c.path
                => c.out = [provider |-> nameNgrok, err |-> ""]
            /\ auto /\ "ngrok" \notin c.path /\ "lt" \in c.path
                => c.out = [provider |-> nameLocaltunnel, err |-> ""]
            /\ auto /\ c.path = {} => c.out.err # "" /\ c.out.provider = <<>>
            /\ ~(explicit \/ none \/ auto)
                => c.out.err # "" /\ c.out.provider = <<>>

\* "auto" was resolved with both binaries installed, and an explicit name and
\* an unknown name were resolved
C21_Witness ==
    /\ \E i \in 1..Len(resCalls) :
          /\ resCalls[i].provider = nameAuto
          /\ resCalls[i].path = {"ngrok", "lt"}
          /\ resCalls[i].out.provider = nameNgrok
    /\ \E i \in 1..Len(resCalls) :
          /\ resCalls[i].provider \notin {nameAuto}
          /\ resCalls[i].out.err # ""


-----------------------------------------------------------------------------
(* Tunnel supervisor: startTunnel, the URL wait, TunnelSession.Close *)

\* ticks of the 500ms ticker (ngrok) or lines scanned (localtunnel) one wait explores
MaxPolls == 2

\* waitForNgrokURL(ctx, ngrokAPI, 15*time.Second),
\* readLocaltunnelURL(ctx, stdout, 15*time.Second)
urlWaitSeconds == 15

\* time.After(2 * time.Second) in the stop function
stopWaitSeconds == 2

TunnelProviders ==
    { <<>>, nameNone, nameNgrok, <<"N">> \o Tail(nameNgrok), nameLocaltunnel,
      nameAuto, <<" ">> \o nameAuto, <<"l", "t">> }

\* "8080" has no host part: net.SplitHostPort fails on it
ListenAddrs == {"", "127.0.0.1:8080", "8080"}

SplitHostPortFails(addr) == addr = "8080"

errListenRequired == "listen address required for tunnel"
errNgrokTimeout == "timed out waiting for ngrok public url"
errLtTimeout == "timed out waiting for localtunnel url"
errLtExited == "localtunnel exited before providing url"
errProcessDone == "os: process already finished"

\* replies of the ngrok API: the request failed, or the public_url of each tunnel
NgrokReplies ==
    { [ok |-> FALSE, tunnels |-> <<>>],
      [ok |-> TRUE, tunnels |-> <<>>],
      [ok |-> TRUE, tunnels |-> <<"">>],
      [ok |-> TRUE, tunnels |-> <<"http://cli.ngrok.dev", "https://cli.ngrok.dev">>],
      [ok |-> TRUE, tunnels |-> <<"http://cli.ngrok.dev">>] }

HasHTTPSPrefix(url) == url = "https://cli.ngrok.dev"

\* fetchNgrokURL: the first https tunnel, else the first tunnel, else an error
fetchNgrokURL(reply) ==
    IF ~reply.ok THEN [url |-> "", err |-> "ngrok api request failed"]
    ELSE IF \E k \in 1..Len(reply.tunnels) : HasHTTPSPrefix(reply.tunnels[k])
    THEN [url |-> reply.tunnels[CHOOSE k \in 1..Len(reply.tunnels) :
                                    /\ HasHTTPSPrefix(reply.tunnels[k])
                                    /\ \A m \in 1..(k - 1) :
                                          ~HasHTTPSPrefix(reply.tunnels[m])],
          err |-> ""]
    ELSE IF Len(reply.tunnels) > 0 THEN [url |-> reply.tunnels[1], err |-> ""]
    ELSE [url |-> "", err |-> "no tunnels available yet"]

\* lines the lt subprocess prints: the text before "https://" and the rest
LtLines ==
    { [text |-> "waiting...", url |-> ""],
      [text |-> "your url is: ", url |-> "https://lt.dev"] }

\* the switch of startTunnel on strings.ToLower(strings.TrimSpace(opts.Provider))
startTunnelSwitch(provider) ==
    LET p == ToLower(TrimSpace(provider)) IN
    CASE p \in {<<>>, nameNone} -> "none"
      [] p = nameNgrok -> "ngrok"
      [] p = nameLocaltunnel -> "localtunnel"
      [] p = nameAuto -> "auto"
      [] OTHER -> "default"

\* startTunnel after startNgrokTunnel failed: case "auto" goes on to
\* startLocaltunnel, case "ngrok" returns the error
afterNgrokFailure_Return(provider) == "returned"

afterNgrokFailure(provider) ==
    IF startTunnelSwitch(provider) = "auto" THEN "lt.launch" ELSE "returned"

\* one call on the process interface, with the state of the Close call making it
ProcessCall(op, ok) ==
    [op |-> op, ok |-> ok, pc |-> closePc, ctx |-> closeCtx,
     timer |-> closeTimer.state]

Called(proc, call) == [proc EXCEPT !.calls = Append(@, call)]

\* proc.Start() succeeded
Started(proc) ==
    [state |-> "running", calls |-> Append(proc.calls, ProcessCall("Start", TRUE))]

\* proc.Kill(): a running subprocess is killed
Kill(proc) ==
    [state |-> IF proc.state = "running" THEN "killed" ELSE proc.state,
     calls |-> Append(proc.calls, ProcessCall("Kill", proc.state = "running"))]

KillError(proc) == IF proc.state = "running" THEN "" ELSE errProcessDone

\* the URL wait failed: _ = proc.Kill()
onWaitFailure_NoKill(proc) == proc

onWaitFailure(proc) == Kill(proc)

\* the stop function after proc.Signal(os.Interrupt) returned an error
onSignalError_NoKill(proc) == proc

onSignalError(proc) == Kill(proc)

\* the select of the stop function: which cases end in proc.Kill()
selectKills_Always(case) == TRUE

selectKills(case) == case \in {"ctx", "timer"}

\* waitCtx / ctx of the wait is done: its timeout fired or the parent is done
WaitDone == tunTimer.state = "fired" \/ tunCtx # ""

Armed(secs) == [state |-> "running", secs |-> secs]

Running(p) == tunProcs[p].state = "running"

InitTunnel ==
    /\ SupervisionOnly
    /\ NoResolve
    /\ NoDaemon
    /\ NoStart
    /\ tunOpts \in [Provider : TunnelProviders, ListenAddr : ListenAddrs]
    /\ tunCtx = ""
    /\ tunPc = "idle"
    /\ tunTimer = NoTimer
    /\ tunPolls = 0
    /\ tunProcs = [p \in {"ngrok", "localtunnel"} |-> NoProcess]
    /\ tunTried = <<>>
    /\ tunSession = NoSession
    /\ tunErr = ""
    /\ closePc = "none"
    /\ closeCtx = ""
    /\ closeTimer = NoTimer
    /\ closeErr = ""

closeVars == <<closePc, closeCtx, closeTimer, closeErr>>

\* startTunnel is entered
StartTunnel ==
    /\ tunPc = "idle"
    /\ LET first == startTunnelSwitch(tunOpts.Provider) IN
          /\ tunPc' = CASE first \in {"ngrok", "auto"} -> "ngrok.launch"
                        [] first = "localtunnel" -> "lt.launch"
                        [] OTHER -> "returned"
          /\ tunErr' = IF first = "default" THEN errUnsupportedProvider ELSE ""
    /\ UNCHANGED <<tunOpts, tunCtx, tunTimer, tunPolls, tunProcs, tunTried,
                   tunSession, closeVars, notTunVars>>

\* startNgrokTunnel failed with err
NgrokFails(err, procs) ==
    /\ tunProcs' = procs
    /\ tunTried' = Append(tunTried, [provider |-> "ngrok", err |-> err])
    /\ tunPc' = afterNgrokFailure(tunOpts.Provider)
    /\ tunErr' = IF tunPc' = "returned" THEN err ELSE ""
    /\ tunTimer' = NoTimer
    /\ UNCHANGED <<tunOpts, tunCtx, tunPolls, tunSession, closeVars, notTunVars>>

\* startLocaltunnel failed with err
LtFails(err, procs) ==
    /\ tunProcs' = procs
    /\ tunTried' = Append(tunTried, [provider |-> "localtunnel", err |-> err])
    /\ tunPc' = "returned"
    /\ tunErr' = err
    /\ tunTimer' = NoTimer
    /\ UNCHANGED <<tunOpts, tunCtx, tunPolls, tunSession, closeVars, notTunVars>>

\* startNgrokTunnel / startLocaltunnel returns a session
Ready(provider, url) ==
    /\ tunSession' = [Provider |-> provider, URL |-> url]
    /\ tunTried' = Append(tunTried, [provider |-> provider, err |-> ""])
    /\ tunPc' = "returned"
    /\ tunErr' = ""
    /\ tunTimer' = NoTimer
    /\ UNCHANGED <<tunOpts, tunCtx, tunPolls, tunProcs, closeVars, notTunVars>>

\* startNgrokTunnel up to waitForNgrokURL; exec.CommandContext does not start
\* a command whose context is done
NgrokLaunch(launchOK, startOK) ==
    /\ tunPc = "ngrok.launch"
    /\ tunCtx # "" => ~startOK
    /\ IF tunOpts.ListenAddr = "" THEN NgrokFails(errListenRequired, tunProcs)
       ELSE IF ~launchOK THEN NgrokFails("launch ngrok: failed", tunProcs)
       ELSE IF ~startOK
       THEN NgrokFails("start ngrok: failed",
                       [tunProcs EXCEPT !["ngrok"] =
                            Called(@, ProcessCall("Start", FALSE))])
       ELSE /\ tunProcs' = [tunProcs EXCEPT !["ngrok"] = Started(@)]
            /\ tunTimer' = Armed(urlWaitSeconds)
            /\ tunPolls' = 0
            /\ tunPc' = "ngrok.fetch"
            /\ UNCHANGED <<tunOpts, tunCtx, tunTried, tunSession, tunErr,
                           closeVars, notTunVars>>

\* waitForNgrokURL: fetchNgrokURL(waitCtx, api); a request under a done
\* context fails
NgrokFetch(reply) ==
    /\ tunPc = "ngrok.fetch"
    /\ WaitDone => ~reply.ok
    /\ LET r == fetchNgrokURL(reply) IN
          IF r.err = "" /\ r.url # ""
          THEN Ready("ngrok", r.url)
          ELSE /\ tunPc' = "ngrok.select"
               /\ UNCHANGED <<tunOpts, tunCtx, tunTimer, tunPolls, tunProcs,
                              tunTried, tunSession, tunErr, closeVars, notTunVars>>

\* waitForNgrokURL: select on waitCtx.Done() and ticker.C
NgrokSelect(case) ==
    /\ tunPc = "ngrok.select"
    /\ \/ /\ case = "done"
          /\ WaitDone
          /\ NgrokFails("ngrok tunnel not ready: " \o errNgrokTimeout,
                        [tunProcs EXCEPT !["ngrok"] = onWaitFailure(@)])
       \/ /\ case = "tick"
          /\ tunPolls < MaxPolls
          /\ tunPolls' = tunPolls + 1
          /\ tunPc' = "ngrok.fetch"
          /\ UNCHANGED <<tunOpts, tunCtx, tunTimer, tunProcs, tunTried,
                         tunSession, tunErr, closeVars, notTunVars>>

\* startLocaltunnel up to readLocaltunnelURL
LtLaunch(launchOK, pipeOK, startOK) ==
    /\ tunPc = "lt.launch"
    /\ tunCtx # "" => ~startOK
    /\ IF tunOpts.ListenAddr = "" THEN LtFails(errListenRequired, tunProcs)
       ELSE IF SplitHostPortFails(tunOpts.ListenAddr)
       THEN LtFails("invalid listen addr: missing port in address", tunProcs)
       ELSE IF ~launchOK THEN LtFails("launch localtunnel: failed", tunProcs)
       ELSE IF ~pipeOK THEN LtFails("localtunnel stdout: failed", tunProcs)
       ELSE IF ~startOK
       THEN LtFails("start localtunnel: failed",
                    [tunProcs EXCEPT !["localtunnel"] =
                         Called(@, ProcessCall("Start", FALSE))])
       ELSE /\ tunProcs' = [tunProcs EXCEPT !["localtunnel"] = Started(@)]
            /\ tunTimer' = Armed(urlWaitSeconds)
            /\ tunPolls' = 0
            /\ tunPc' = "lt.select"
            /\ UNCHANGED <<tunOpts, tunCtx, tunTried, tunSession, tunErr,
                           closeVars, notTunVars>>

\* readLocaltunnelURL: select on ctx.Done() with a default case
LtSelect ==
    /\ tunPc = "lt.select"
    /\ IF WaitDone
       THEN LtFails(errLtTimeout,
                    [tunProcs EXCEPT !["localtunnel"] = onWaitFailure(@)])
       ELSE /\ tunPc' = "lt.scan"
            /\ UNCHANGED <<tunOpts, tunCtx, tunTimer, tunPolls, tunProcs,
                           tunTried, tunSession, tunErr, closeVars, notTunVars>>

\* readLocaltunnelURL: scanner.Scan() returns a line the subprocess printed
LtScanLine(line) ==
    /\ tunPc = "lt.scan"
    /\ Running("localtunnel")
    /\ tunPolls < MaxPolls
    /\ IF line.url # ""
       THEN Ready("localtunnel", line.url)
       ELSE /\ tunPc' = "lt.select"
            /\ tunPolls' = tunPolls + 1
            /\ UNCHANGED <<tunOpts, tunCtx, tunTimer, tunProcs, tunTried,
                           tunSession, tunErr, closeVars, notTunVars>>

\* readLocaltunnelURL: scanner.Scan() returns false, the output has ended
LtScanEnds(scanErr) ==
    /\ tunPc = "lt.scan"
    /\ ~Running("localtunnel")
    /\ LtFails(IF scanErr THEN "read |0: file already closed" ELSE errLtExited,
               [tunProcs EXCEPT !["localtunnel"] = onWaitFailure(@)])

\* the 15s of the wait's context.WithTimeout pass
WaitTimerFires ==
    /\ tunTimer.state = "running"
    /\ tunTimer' = [tunTimer EXCEPT !.state = "fired"]
    /\ UNCHANGED <<tunOpts, tunCtx, tunPc, tunPolls, tunProcs, tunTried,
                   tunSession, tunErr, closeVars, notTunVars>>

\* the context startTunnel was called with is done; exec.CommandContext kills
\* the subprocesses started under it
TunnelContextDone ==
    /\ tunCtx = ""
    /\ closePc # "returned"
    /\ tunCtx' = "context canceled"
    /\ tunProcs' = [p \in DOMAIN tunProcs |->
                       [tunProcs[p] EXCEPT !.state =
                            IF @ = "running" THEN "killed" ELSE @]]
    /\ UNCHANGED <<tunOpts, tunPc, tunTimer, tunPolls, tunTried, tunSession,
                   tunErr, closeVars, notTunVars>>

\* a subprocess exits on its own
ProcessExits(p) ==
    /\ Running(p)
    /\ tunProcs' = [tunProcs EXCEPT ![p].state = "exited"]
    /\ UNCHANGED <<tunOpts, tunCtx, tunPc, tunTimer, tunPolls, tunTried,
                   tunSession, tunErr, closeVars, notTunVars>>

IsReady == tunPc = "returned" /\ tunSession # NoSession

\* the context Close is (or will be) called with is done
CloseContextDone ==
    /\ IsReady
    /\ closePc # "returned"
    /\ closeCtx = ""
    /\ closeCtx' = "context deadline exceeded"
    /\ UNCHANGED <<closePc, closeTimer, closeErr, tunOpts, tunCtx, tunPc,
                   tunTimer, tunPolls, tunProcs, tunTried, tunSession, tunErr,
                   notTunVars>>

\* TunnelSession.Close: s.stop(ctx) up to the select
CloseBegin(sigOK) ==
    /\ IsReady
    /\ closePc = "none"
    /\ LET p == tunSession.Provider
           signalled == Called(tunProcs[p], ProcessCall("Signal", sigOK))
       IN  IF ~sigOK
           THEN /\ tunProcs' = [tunProcs EXCEPT ![p] = onSignalError(signalled)]
                /\ closePc' = "returned"
                /\ closeErr' = "signal failed"
                /\ UNCHANGED closeTimer
           ELSE /\ tunProcs' = [tunProcs EXCEPT ![p] = signalled]
                /\ closePc' = "select"
                /\ closeTimer' = Armed(stopWaitSeconds)
                /\ UNCHANGED closeErr
    /\ UNCHANGED <<closeCtx, tunOpts, tunCtx, tunPc, tunTimer, tunPolls,
                   tunTried, tunSession, tunErr, notTunVars>>

\* the stop function's select: proc.Wait() returned, shutdown.Done(), time.After
CloseSelect(case, waitErr) ==
    /\ closePc = "select"
    /\ LET p == tunSession.Provider IN
          /\ CASE case = "done" -> ~Running(p)
               [] case = "ctx" -> closeCtx # "" /\ waitErr = ""
               [] case = "timer" -> closeTimer.state = "fired" /\ waitErr = ""
          /\ IF selectKills(case)
             THEN /\ tunProcs' = [tunProcs EXCEPT ![p] = Kill(@)]
                  /\ closeErr' = KillError(tunProcs[p])
             ELSE /\ closeErr' = waitErr
                  /\ UNCHANGED tunProcs
    /\ closePc' = "returned"
    /\ UNCHANGED <<closeCtx, closeTimer, tunOpts, tunCtx, tunPc, tunTimer,
                   tunPolls, tunTried, tunSession, tunErr, notTunVars>>

\* the 2s of the stop function's time.After pass
CloseTimerFires ==
    /\ closePc = "select"
    /\ closeTimer.state = "running"
    /\ closeTimer' = [closeTimer EXCEPT !.state = "fired"]
    /\ UNCHANGED <<closePc, closeCtx, closeErr, tunOpts, tunCtx, tunPc, tunTimer,
                   tunPolls, tunProcs, tunTried, tunSession, tunErr, notTunVars>>

SelectCases == {"done", "ctx", "timer"}

WaitErrors == {"", "signal: interrupt"}

NextTunnel ==
    \/ StartTunnel
    \/ \E launchOK, startOK \in BOOLEAN : NgrokLaunch(launchOK, startOK)
    \/ \E reply \in NgrokReplies : NgrokFetch(reply)
    \/ \E case \in {"done", "tick"} : NgrokSelect(case)
    \/ \E launchOK, pipeOK, startOK \in BOOLEAN : LtLaunch(launchOK, pipeOK, startOK)
    \/ LtSelect
    \/ \E line \in LtLines : LtScanLine(line)
    \/ \E scanErr \in BOOLEAN : LtScanEnds(scanErr)
    \/ WaitTimerFires
    \/ TunnelContextDone
    \/ \E p \in {"ngrok", "localtunnel"} : ProcessExits(p)
    \/ CloseContextDone
    \/ \E sigOK \in BOOLEAN : CloseBegin(sigOK)
    \/ \E case \in SelectCases, waitErr \in WaitErrors : CloseSelect(case, waitErr)
    \/ CloseTimerFires

SpecTunnel == InitTunnel /\ [][NextTunnel]_vars


\* calls of one kind made on a subprocess, as positions in its call log
CallsOf(proc, op) == { k \in 1..Len(proc.calls) : proc.calls[k].op = op }

WasStarted(proc) == \E k \in CallsOf(proc, "Start") : proc.calls[k].ok

AttemptFailed(p) ==
    \E k \in 1..Len(tunTried) : tunTried[k].provider = p /\ tunTried[k].err # ""

\* C22: startTunnel with provider "auto" tries ngrok first and, on any failure
\* of the ngrok attempt (launch, start or URL not ready), tries localtunnel; it
\* returns the ngrok session when ngrok succeeds, the localtunnel session when
\* only localtunnel succeeds, and an error only when both fail.
C22_AutoFallback ==
    Spells(tunOpts.Provider, nameAuto) =>
        /\ Len(tunTried) <= 2
        /\ Len(tunTried) >= 1 => tunTried[1].provider = "ngrok"
        /\ Len(tunTried) = 2
            => tunTried[1].err # "" /\ tunTried[2].provider = "localtunnel"
        /\ tunProcs["localtunnel"].calls # <<>> => AttemptFailed("ngrok")
        /\ tunPc = "returned" =>
              /\ Len(tunTried) >= 1
              /\ tunTried[1].err = ""
                    => Len(tunTried) = 1 /\ tunSession.Provider = "ngrok"
                       /\ tunErr = ""
              /\ tunTried[1].err # "" => Len(tunTried) = 2
              /\ Len(tunTried) = 2 /\ tunTried[2].err = ""
                    => tunSession.Provider = "localtunnel" /\ tunErr = ""
              /\ tunErr # "" <=> \A k \in 1..Len(tunTried) : tunTried[k].err # ""
              /\ tunErr # "" => tunSession = NoSession /\ Len(tunTried) = 2

\* "auto": the ngrok subprocess ran but no URL came, localtunnel gave the session
C22_Witness ==
    /\ tunOpts.Provider = nameAuto
    /\ tunPc = "returned"
    /\ WasStarted(tunProcs["ngrok"])
    /\ AttemptFailed("ngrok")
    /\ tunSession.Provider = "localtunnel"

TunnelStep ==
    \/ StartTunnel
    \/ \E launchOK, startOK \in BOOLEAN : NgrokLaunch(launchOK, startOK)
    \/ \E reply \in NgrokReplies : NgrokFetch(reply)
    \/ \E case \in {"done", "tick"} : NgrokSelect(case)
    \/ \E launchOK, pipeOK, startOK \in BOOLEAN : LtLaunch(launchOK, pipeOK, startOK)
    \/ LtSelect
    \/ \E scanErr \in BOOLEAN : LtScanEnds(scanErr)

InWait == tunPc \in {"ngrok.fetch", "ngrok.select", "lt.select", "lt.scan"}

\* C24: waiting for the public URL always terminates: for either provider the
\* start call returns a session or an error once the 15s wait or the caller's
\* context has expired, even when the subprocess keeps running and never
\* reports a URL. Stated on finite runs: while a wait is on, its timeout is the
\* 15s one, and once it or the caller's context has expired the call can go on
\* by itself.
C24_Original ==
    InWait =>
        /\ tunTimer.secs = 15
        /\ tunTimer.state = "fired" \/ tunCtx # "" => ENABLED TunnelStep

\* C25: Close sends the graceful interrupt signal before any force-kill; it
\* force-kills only when the interrupt cannot be delivered, the caller's
\* context expires, or 2s pass without the subprocess exiting, and issues no
\* kill when the subprocess exits on its own after the interrupt.
C25_GracefulThenKill ==
    IsReady =>
        LET proc == tunProcs[tunSession.Provider]
            kills == CallsOf(proc, "Kill")
            signals == CallsOf(proc, "Signal")
        IN  /\ Cardinality(kills) <= 1
            /\ Cardinality(signals) <= 1
            /\ closePc # "none" => Cardinality(signals) = 1
            /\ \A k \in kills :
                  \E j \in signals :
                      /\ j < k
                      /\ \/ ~proc.calls[j].ok
                         \/ proc.calls[k].ctx # ""
                         \/ /\ proc.calls[k].timer = "fired"
                            /\ closeTimer.secs = 2
            /\ /\ closePc = "returned"
               /\ \A j \in signals : proc.calls[j].ok
               /\ closeCtx = ""
               /\ closeTimer.state # "fired"
               => kills = {} /\ proc.state # "running"

\* Close killed a running subprocess because the 2s passed after the interrupt
C25_Witness ==
    /\ IsReady
    /\ closePc = "returned"
    /\ closeCtx = ""
    /\ LET proc == tunProcs[tunSession.Provider] IN
          \E k \in CallsOf(proc, "Kill") :
              /\ proc.calls[k].ok
              /\ proc.calls[k].timer = "fired"
              /\ \E j \in CallsOf(proc, "Signal") : j < k /\ proc.calls[j].ok

\* C26: after Close returns on a Ready tunnel session, the session's
\* subprocess is no longer running, whether it exited after the graceful
\* signal or had to be force-killed, and Close returns within the 2s bound or
\* the caller's context expiry: once either has passed, the select returns.
C26_ClosedMeansStopped ==
    IsReady =>
        /\ closePc = "returned" => tunProcs[tunSession.Provider].state # "running"
        /\ closePc = "select" =>
              /\ closeTimer.secs = 2
              /\ closeTimer.state \in {"running", "fired"}
              /\ closeTimer.state = "fired" \/ closeCtx # ""
                    => ENABLED (\E case \in SelectCases, waitErr \in WaitErrors :
                                    CloseSelect(case, waitErr))

\* Close returned after killing a subprocess the interrupt did not reach
C26_Witness ==
    /\ IsReady
    /\ closePc = "returned"
    /\ tunCtx = ""
    /\ LET proc == tunProcs[tunSession.Provider] IN
          /\ proc.state = "killed"
          /\ \E j \in CallsOf(proc, "Signal") : ~proc.calls[j].ok

\* C34: every tunnel session that reaches Ready carries a non-empty public
\* URL with the https scheme, for both providers.
C34_Original ==
    IsReady =>
        /\ tunSession.URL # ""
        /\ tunSession.URL \in {"https://cli.ngrok.dev", "https://lt.dev"}

\* C35: a startTunnel call never has two tunnel subprocesses running at once
\* and never returns an error while a subprocess it started still runs; in
\* auto mode the localtunnel subprocess is launched only after the ngrok
\* attempt failed and an ngrok subprocess that was started was killed.
C35_OneSubprocess ==
    /\ ~(Running("ngrok") /\ Running("localtunnel"))
    /\ tunPc = "returned" /\ tunErr # ""
          => \A p \in {"ngrok", "localtunnel"} : ~Running(p)
    /\ tunProcs["localtunnel"].calls # <<>> =>
          /\ ~Running("ngrok")
          /\ tunProcs["ngrok"].calls # <<>> =>
                /\ Spells(tunOpts.Provider, nameAuto)
                /\ AttemptFailed("ngrok")
                /\ WasStarted(tunProcs["ngrok"])
                      => CallsOf(tunProcs["ngrok"], "Kill") # {}

\* auto: the ngrok subprocess was started and killed, localtunnel now runs
C35_Witness ==
    /\ Spells(tunOpts.Provider, nameAuto)
    /\ tunProcs["ngrok"].state = "killed"
    /\ tunCtx = ""
    /\ Running("localtunnel")


-----------------------------------------------------------------------------
(* Daemon manager: Start, Stop, Status over a PID file *)

\* number of daemon manager calls explored by SpecDaemon
MaxDaemonCalls == 2

\* process IDs the host hands out
DaemonPIDs == 1..2

\* daemonOptions.PIDFile as the commands build it: "" when --pid-file is not given
PIDFileOptions == {"", customPIDPath}

errNoPIDFile == "no pid file found"
errAlreadyRunning == "daemon already running"

\* readPID: the PID a file holds, 0 when os.ReadFile finds no such file (as for
\* the empty path)
readPID(files, path) == IF path \in DOMAIN files THEN files[path] ELSE 0

\* realCheckProcess: signal 0 reaches the process
checkProc(pid, live) == pid > 0 /\ pid \in live

\* realKillProcess: SIGTERM to a process that is gone is an error
killProc(pid, live) == IF pid \in live THEN "" ELSE errProcessDone

\* Start: m.opts.PIDFile, replaced by defaultPIDPath() when empty
startPIDFile(opt) == IF opt = "" THEN defaultPIDPath ELSE opt

\* Stop and Status read m.opts.PIDFile as it is
stopPIDFile(opt) == opt

\* Start refuses: the PID file names a process that is alive
alreadyRunning_AnyPIDFile(files, live, path) == readPID(files, path) > 0

alreadyRunning(files, live, path) ==
    LET pid == readPID(files, path) IN pid > 0 /\ checkProc(pid, live)

\* daemonManager.Status, for a manager built with daemonOptions{PIDFile: opt}
daemonStatus(files, live, opt) ==
    LET pid == readPID(files, stopPIDFile(opt)) IN
    IF pid = 0 THEN [status |-> "stopped", pid |-> 0]
    ELSE IF checkProc(pid, live) THEN [status |-> "running", pid |-> pid]
    ELSE [status |-> "stale pid file", pid |-> pid]

InitDaemon ==
    /\ SupervisionOnly
    /\ NoResolve
    /\ NoTunnel
    /\ NoStart
    /\ pidFiles \in [{defaultPIDPath, customPIDPath} -> {0} \cup DaemonPIDs]
    /\ livePids \in SUBSET DaemonPIDs
    /\ dmnCalls = <<>>

\* one call of the daemon manager, with the PID files and processes around it
DaemonCall(op, opt, in, out, files, live) ==
    [op |-> op, opt |-> opt, in |-> in, out |-> out,
     files |-> pidFiles, live |-> livePids, filesAfter |-> files, liveAfter |-> live]

NoInput == [startOK |-> FALSE, writeOK |-> FALSE]

Returned(err, status, pid) == [err |-> err, status |-> status, pid |-> pid]

\* Start after the liveness check: an error of startProc returns before
\* writePID is reached
startWritesPID_BeforeSpawn(startOK, writeOK) == writeOK

startWritesPID(startOK, writeOK) == startOK /\ writeOK

\* daemonManager.Start; startProc hands back the PID of the child
DaemonStart(opt, startOK, writeOK, child) ==
    /\ Len(dmnCalls) < MaxDaemonCalls
    /\ startOK => child \notin livePids
    /\ LET path == startPIDFile(opt)
           in == [startOK |-> startOK, writeOK |-> writeOK]
       IN  IF alreadyRunning(pidFiles, livePids, path)
           THEN /\ dmnCalls' = Append(dmnCalls,
                        DaemonCall("Start", opt, in,
                                   Returned(errAlreadyRunning, "", 0),
                                   pidFiles, livePids))
                /\ UNCHANGED <<pidFiles, livePids>>
           ELSE /\ livePids' = IF startOK THEN livePids \cup {child} ELSE livePids
                /\ pidFiles' = IF startWritesPID(startOK, writeOK)
                               THEN [pidFiles EXCEPT ![path] = child]
                               ELSE pidFiles
                /\ dmnCalls' = Append(dmnCalls,
                        DaemonCall("Start", opt, in,
                                   Returned(IF ~startOK THEN "start process failed"
                                            ELSE IF ~writeOK THEN "write pid failed"
                                            ELSE "",
                                            "", IF startOK THEN child ELSE 0),
                                   pidFiles', livePids'))
    /\ UNCHANGED <<resVars, tunVars, notSupVars>>

\* daemonManager.Stop; a process that gets SIGTERM exits then or later
DaemonStop(opt, exits) ==
    /\ Len(dmnCalls) < MaxDaemonCalls
    /\ LET path == stopPIDFile(opt)
           pid == readPID(pidFiles, path)
       IN  IF pid = 0
           THEN /\ dmnCalls' = Append(dmnCalls,
                        DaemonCall("Stop", opt, NoInput,
                                   Returned(errNoPIDFile, "", 0),
                                   pidFiles, livePids))
                /\ UNCHANGED <<pidFiles, livePids>>
           ELSE IF killProc(pid, livePids) # ""
           THEN /\ dmnCalls' = Append(dmnCalls,
                        DaemonCall("Stop", opt, NoInput,
                                   Returned(killProc(pid, livePids), "", pid),
                                   pidFiles, livePids))
                /\ UNCHANGED <<pidFiles, livePids>>
           ELSE /\ livePids' = IF exits THEN livePids \ {pid} ELSE livePids
                /\ pidFiles' = [pidFiles EXCEPT ![path] = 0]
                /\ dmnCalls' = Append(dmnCalls,
                        DaemonCall("Stop", opt, NoInput, Returned("", "", pid),
                                   pidFiles', livePids'))
    /\ UNCHANGED <<resVars, tunVars, notSupVars>>

\* daemonManager.Status
DaemonStatus(opt) ==
    /\ Len(dmnCalls) < MaxDaemonCalls
    /\ LET st == daemonStatus(pidFiles, livePids, opt) IN
          dmnCalls' = Append(dmnCalls,
                DaemonCall("Status", opt, NoInput, Returned("", st.status, st.pid),
                           pidFiles, livePids))
    /\ UNCHANGED <<pidFiles, livePids, resVars, tunVars, notSupVars>>

\* a process exits on its own
DaemonExits(pid) ==
    /\ pid \in livePids
    /\ livePids' = livePids \ {pid}
    /\ UNCHANGED <<pidFiles, dmnCalls, resVars, tunVars, notSupVars>>

NextDaemon ==
    \/ \E opt \in PIDFileOptions, startOK, writeOK \in BOOLEAN, child \in DaemonPIDs :
          DaemonStart(opt, startOK, writeOK, child)
    \/ \E opt \in PIDFileOptions, exits \in BOOLEAN : DaemonStop(opt, exits)
    \/ \E opt \in PIDFileOptions : DaemonStatus(opt)
    \/ \E pid \in DaemonPIDs : DaemonExits(pid)

SpecDaemon == InitDaemon /\ [][NextDaemon]_vars

\* the PID file a call made without --pid-file is meant to use
PIDFileOf(opt) ==
    IF opt = "" THEN "~/.cache/vibe/discord-server.pid" ELSE opt

CallsMade(op) == { i \in 1..Len(dmnCalls) : dmnCalls[i].op = op }

OtherFilesKept(c, path) ==
    \A other \in DOMAIN c.files : other # path => c.filesAfter[other] = c.files[other]

\* C27: daemon Start on a PID file that names a live process returns an
\* "already running" error, spawns no child and leaves the PID file unchanged;
\* Start on a PID file that names a dead process, or with no PID file, spawns a
\* child and the PID file then holds that child's PID.
C27_StartChecksLiveness ==
    \A i \in CallsMade("Start") :
        LET c == dmnCalls[i]
            path == PIDFileOf(c.opt)
            recorded == c.files[path]
        IN  /\ OtherFilesKept(c, path)
            /\ recorded > 0 /\ recorded \in c.live
                => /\ c.out.err = "daemon already running"
                   /\ c.out.pid = 0
                   /\ c.liveAfter = c.live
                   /\ c.filesAfter = c.files
            /\ recorded = 0 \/ recorded \notin c.live
                => /\ c.out.err # "daemon already running"
                   /\ c.in.startOK
                        => /\ c.out.pid \in c.liveAfter \ c.live
                           /\ c.liveAfter = c.live \cup {c.out.pid}
                   /\ c.in.startOK /\ c.in.writeOK
                        => c.out.err = "" /\ c.filesAfter[path] = c.out.pid
                   /\ c.out.err = "" => c.in.startOK /\ c.in.writeOK

\* a Start refused over a live PID, and a Start replaced a stale PID file
C27_Witness ==
    /\ \E i \in CallsMade("Start") :
          /\ dmnCalls[i].out.err = "daemon already running"
          /\ dmnCalls[i].filesAfter = dmnCalls[i].files
    /\ \E i \in CallsMade("Start") :
          LET c == dmnCalls[i] IN
              /\ c.files[PIDFileOf(c.opt)] > 0
              /\ c.files[PIDFileOf(c.opt)] \notin c.live
              /\ c.out.err = ""
              /\ c.filesAfter[PIDFileOf(c.opt)] = c.out.pid

\* C28: daemon Stop returns an error when no PID file exists; otherwise it
\* sends the termination signal to the recorded PID and removes the PID file,
\* and the PID file is removed also when the recorded process had already
\* exited before Stop was called.
C28_Original ==
    \A i \in CallsMade("Stop") :
        LET c == dmnCalls[i]
            recorded == IF c.opt \in DOMAIN c.files THEN c.files[c.opt] ELSE 0
        IN  /\ recorded = 0 => c.out.err # "" /\ c.filesAfter = c.files
            /\ recorded > 0
                => /\ c.out.pid = recorded
                   /\ c.filesAfter[c.opt] = 0
                   /\ OtherFilesKept(c, c.opt)

\* the same call, following the one before with nothing happening in between
Follows(i, op) ==
    /\ i + 1 \in CallsMade(op)
    /\ dmnCalls[i + 1].opt = dmnCalls[i].opt
    /\ dmnCalls[i + 1].files = dmnCalls[i].filesAfter
    /\ dmnCalls[i + 1].live = dmnCalls[i].liveAfter

\* C29: daemon Status reports "stopped" when no PID file exists, "running (pid
\* N)" when the recorded PID is live and "stale pid file (N)" when it is not;
\* and in any state, a Start issued next refuses exactly when Status reports
\* running.
C29_Original ==
    \A i \in CallsMade("Status") :
        LET c == dmnCalls[i]
            recorded == c.files[PIDFileOf(c.opt)]
        IN  /\ c.out.err = ""
            /\ recorded = 0 => c.out.status = "stopped"
            /\ recorded > 0 /\ recorded \in c.live
                => c.out.status = "running" /\ c.out.pid = recorded
            /\ recorded > 0 /\ recorded \notin c.live
                => c.out.status = "stale pid file" /\ c.out.pid = recorded
            /\ Follows(i, "Start")
                => (dmnCalls[i + 1].out.err = "daemon already running"
                        <=> c.out.status = "running")

\* C30: Start, Stop and Status invoked with no explicit PID-file path all
\* operate on the same default PID file, so a daemon started with the default
\* path is reported by Status and stopped by Stop with the default path.
C30_Original ==
    \A i \in CallsMade("Start") :
        LET c == dmnCalls[i] IN
        c.opt = "" /\ c.out.err = "" =>
            /\ c.filesAfter["~/.cache/vibe/discord-server.pid"] = c.out.pid
            /\ Follows(i, "Status")
                => /\ dmnCalls[i + 1].out.status = "running"
                   /\ dmnCalls[i + 1].out.pid = c.out.pid
            /\ Follows(i, "Stop")
                => /\ dmnCalls[i + 1].out.err = ""
                   /\ dmnCalls[i + 1].out.pid = c.out.pid
                   /\ dmnCalls[i + 1].filesAfter["~/.cache/vibe/discord-server.pid"] = 0


\* C31: the PID file is written only after the child process was spawned
\* successfully; when spawning fails, Start returns the error and the PID file
\* (absent or stale) is left exactly as it was.
C31_WriteAfterSpawn ==
    \A i \in CallsMade("Start") :
        LET c == dmnCalls[i]
            path == PIDFileOf(c.opt)
        IN  /\ c.filesAfter # c.files
                => /\ c.in.startOK
                   /\ c.out.pid \in c.liveAfter \ c.live
                   /\ c.filesAfter[path] = c.out.pid
            /\ ~c.in.startOK
                => /\ c.out.err # ""
                   /\ c.out.pid = 0
                   /\ c.filesAfter = c.files
                   /\ c.liveAfter = c.live

\* spawning failed over a stale PID file, which still holds the dead PID
C31_Witness ==
    \E i \in CallsMade("Start") :
        LET c == dmnCalls[i] IN
            /\ ~c.in.startOK
            /\ c.in.writeOK
            /\ c.out.err = "start process failed"
            /\ c.files[PIDFileOf(c.opt)] > 0
            /\ c.files[PIDFileOf(c.opt)] \notin c.live
            /\ c.filesAfter = c.files

-----------------------------------------------------------------------------
(* `server start --daemon`: the invocation, the child it spawns *)

\* the variable Start sets in the environment of the child
daemonEnvFlag == "VIBE_DISCORD_DAEMON_CHILD"

\* processes followed from one invocation
MaxProcs == 3

EnvEntry(key, value) == [key |-> key, value |-> value]

\* environments the invocation is made from
RootEnvirons ==
    {<<>>,
     <<EnvEntry("HOME", "/root")>>,
     <<EnvEntry("HOME", "/root"), EnvEntry(daemonEnvFlag, "1")>>,
     <<EnvEntry(daemonEnvFlag, ""), EnvEntry("HOME", "/root")>>}

\* KEY=value lines an env file may hold, blank lines and comments skipped
EnvFileEntries ==
    {EnvEntry(daemonEnvFlag, ""), EnvEntry(daemonEnvFlag, "0"),
     EnvEntry("HOME", "/srv")}

EnvFiles == {<<>>} \cup {<<a>> : a \in EnvFileEntries}
                   \cup {<<a, b>> : a \in EnvFileEntries, b \in EnvFileEntries}

execPath == "/usr/bin/arc-discord"

\* os.Args of the invocation
Argvs ==
    {<<"arc-discord", "server", "start">>,
     <<"arc-discord", "server", "start", "--daemon">>,
     <<"arc-discord", "server", "start", "--daemon=true">>,
     <<"arc-discord", "server", "start", "--daemon", "--dry-run">>}

\* the --daemon flag as the flag set parses it from the arguments
daemonEnabled(argv) ==
    \E i \in 2..Len(argv) : argv[i] \in {"--daemon", "--daemon=true"}

\* os.Getenv: the first entry of the environment block with that key
Getenv(environ, key) ==
    LET at == {i \in 1..Len(environ) : environ[i].key = key}
    IN  IF at = {} THEN ""
        ELSE environ[CHOOSE i \in at : \A j \in at : i <= j].value

\* what exec hands the child of a cmd.Env with repeated keys: for each key
\* the last entry
RECURSIVE dedupEnv(_)
dedupEnv(entries) ==
    IF entries = <<>> THEN <<>>
    ELSE IF \E j \in 2..Len(entries) : entries[j].key = entries[1].key
         THEN dedupEnv(Tail(entries))
         ELSE <<entries[1]>> \o dedupEnv(Tail(entries))

\* the marker put in front of the entries of the env file
childEnv_MarkerFirst(environ, file) ==
    environ \o <<EnvEntry(daemonEnvFlag, "1")>> \o file

\* cmd.Env of the child: os.Environ(), the env file, then the marker
childEnv(environ, file) ==
    environ \o file \o <<EnvEntry(daemonEnvFlag, "1")>>

filterDaemonArgv(path, args) ==
    <<path>> \o SelectSeq(Tail(args), LAMBDA a : a # "--daemon")

\* the condition under which runServerStart hands over to the daemon manager
shouldDaemonize(daemon, environ) == daemon /\ Getenv(environ, daemonEnvFlag) = ""

Process(environ, argv) ==
    [environ |-> environ, argv |-> argv, pc |-> "start", starts |-> 0]

InitDaemonize ==
    /\ SupervisionOnly
    /\ NoResolve
    /\ NoTunnel
    /\ NoDaemon
    /\ NoStarters
    /\ NoServe
    /\ NoConfigFile
    /\ dzEnvFile \in EnvFiles
    /\ \E environ \in RootEnvirons, argv \in Argvs :
            dzProcs = <<Process(environ, argv)>>

\* runServerStart up to the point where it either returned from the daemon
\* branch or went on to run the server itself
RunServerStart(i, startOK) ==
    /\ i \in 1..Len(dzProcs)
    /\ dzProcs[i].pc = "start"
    /\ LET p == dzProcs[i]
       IN  IF shouldDaemonize(daemonEnabled(p.argv), p.environ)
           THEN /\ Len(dzProcs) < MaxProcs
                /\ dzProcs' =
                     LET called == [dzProcs EXCEPT ![i].starts = @ + 1,
                                       ![i].pc = IF startOK THEN "daemonized"
                                                 ELSE "start failed"]
                     IN  IF startOK
                         THEN Append(called,
                                Process(dedupEnv(childEnv(p.environ, dzEnvFile)),
                                        filterDaemonArgv(execPath, p.argv)))
                         ELSE called
           ELSE /\ startOK
                /\ dzProcs' = [dzProcs EXCEPT ![i].pc = "serving"]
    /\ UNCHANGED <<dzEnvFile, notDzVars>>

NextDaemonize ==
    \/ \E i \in 1..MaxProcs, startOK \in BOOLEAN : RunServerStart(i, startOK)

SpecDaemonize == InitDaemonize /\ [][NextDaemonize]_vars

\* the process's environment holds the marker with a non-empty value
SeesMarker(p) ==
    \E j \in 1..Len(p.environ) :
        /\ p.environ[j].key = daemonEnvFlag
        /\ p.environ[j].value # ""
        /\ \A k \in 1..Len(p.environ) : p.environ[k].key = daemonEnvFlag => k = j

\* C32: the child Start spawns has the daemon marker set whatever the env
\* file holds; a server start that sees the marker runs the server itself
\* and never calls Start; so the invocation leads to at most one Start that
\* spawned a child, and no process calls Start twice.
C32_DaemonizesOnce ==
    /\ \A i \in 2..Len(dzProcs) : SeesMarker(dzProcs[i])
    /\ \A i \in 1..Len(dzProcs) :
        /\ dzProcs[i].starts <= 1
        /\ SeesMarker(dzProcs[i]) =>
              /\ dzProcs[i].starts = 0
              /\ dzProcs[i].pc \in {"start", "serving"}
    /\ Len(dzProcs) <= 2

\* a child that kept --daemon=true and was given an env file that clears the
\* marker runs the server itself
C32_Witness ==
    /\ Len(dzProcs) = 2
    /\ dzProcs[1].pc = "daemonized"
    /\ dzProcs[2].pc = "serving"
    /\ daemonEnabled(dzProcs[2].argv)
    /\ \E j \in 1..Len(dzEnvFile) :
          dzEnvFile[j].key = daemonEnvFlag /\ dzEnvFile[j].value = ""

-----------------------------------------------------------------------------
(* daemonManager.Start, statement by statement, called by several processes *)

\* Start calls that overlap
NumStarters == 2

\* PIDs the host hands out
HostPIDs == 1..(NumStarters + 1)

Starter(at, child, wrote, err) ==
    [pc |-> at, child |-> child, wrote |-> wrote, err |-> err]

\* writes made to the PID file by the calls so far
Writes == Cardinality({c \in 1..Len(starters) : starters[c].wrote > 0})

\* a write that leaves an existing PID file as it is
writePID_KeepExisting(files, path, pid) ==
    IF files[path] # 0 THEN files ELSE [files EXCEPT ![path] = pid]

\* os.WriteFile of the PID: what the file held is replaced
writePID(files, path, pid) == [files EXCEPT ![path] = pid]

\* every call is made with the default PID file; the file may be absent or
\* name a process that has exited
InitRace ==
    /\ SupervisionOnly
    /\ NoResolve
    /\ NoTunnel
    /\ NoDaemonize
    /\ NoServe
    /\ NoConfigFile
    /\ dmnCalls = <<>>
    /\ \E pid \in {0} \cup HostPIDs :
            pidFiles = [path \in {defaultPIDPath, customPIDPath} |->
                            IF path = defaultPIDPath THEN pid ELSE 0]
    /\ livePids \in SUBSET {1}
    /\ starters = [c \in 1..NumStarters |-> Starter("check", 0, 0, "")]

\* readPID and checkProc
StartCheck(c) ==
    /\ starters[c].pc = "check"
    /\ starters' =
          IF alreadyRunning(pidFiles, livePids, startPIDFile(""))
          THEN [starters EXCEPT ![c] = Starter("returned", 0, 0, errAlreadyRunning)]
          ELSE [starters EXCEPT ![c].pc = "spawn"]
    /\ UNCHANGED <<pidFiles, livePids, notRaceVars>>

\* startProc
StartSpawn(c, startOK, child) ==
    /\ starters[c].pc = "spawn"
    /\ IF startOK
       THEN /\ child \notin livePids
            /\ livePids' = livePids \cup {child}
            /\ starters' = [starters EXCEPT ![c].pc = "write", ![c].child = child]
       ELSE /\ child = 1
            /\ starters' = [starters EXCEPT
                                ![c] = Starter("returned", 0, 0, "start process failed")]
            /\ UNCHANGED livePids
    /\ UNCHANGED <<pidFiles, notRaceVars>>

\* writePID
StartWrite(c, writeOK) ==
    /\ starters[c].pc = "write"
    /\ IF writeOK
       THEN /\ pidFiles' = writePID(pidFiles, startPIDFile(""), starters[c].child)
            /\ starters' = [starters EXCEPT ![c].pc = "returned",
                                            ![c].wrote = Writes + 1]
       ELSE /\ starters' = [starters EXCEPT ![c].pc = "returned",
                                            ![c].err = "write pid failed"]
            /\ UNCHANGED pidFiles
    /\ UNCHANGED <<livePids, notRaceVars>>

NextRace ==
    \/ \E c \in 1..NumStarters : StartCheck(c)
    \/ \E c \in 1..NumStarters, startOK \in BOOLEAN, child \in HostPIDs :
            StartSpawn(c, startOK, child)
    \/ \E c \in 1..NumStarters, writeOK \in BOOLEAN : StartWrite(c, writeOK)

SpecRace == InitRace /\ [][NextRace]_vars

\* the Start calls that returned nil
StartedCalls == {c \in 1..Len(starters) : starters[c].pc = "returned" /\ starters[c].err = ""}

\* C33: the check and the write of Start are separate steps, so overlapping
\* calls on one PID file can all return nil: then each of them spawned its
\* own child, all those children run, and the PID file names one of them
\* only, the child of the call that wrote last.
C33_OverlappingStarts ==
    \A c \in StartedCalls :
        /\ starters[c].child \in livePids
        /\ \A d \in StartedCalls : d # c => starters[d].child # starters[c].child
        /\ (\A d \in StartedCalls : starters[d].wrote <= starters[c].wrote)
              => pidFiles[defaultPIDPath] = starters[c].child
        /\ (\E d \in StartedCalls : starters[d].wrote > starters[c].wrote)
              => pidFiles[defaultPIDPath] # starters[c].child

\* two Start calls returned nil, two children run, the PID file names one
C33_Witness ==
    /\ Cardinality(StartedCalls) = 2
    /\ Cardinality({starters[c].child : c \in StartedCalls} \cap livePids) = 2
    /\ \E c \in StartedCalls : pidFiles[defaultPIDPath] = starters[c].child
    /\ \E c \in StartedCalls : pidFiles[defaultPIDPath] # starters[c].child

-----------------------------------------------------------------------------
(* runServerStart: publisher, tunnel, HTTP server, deferred calls *)

\* tunnel.provider settings runServerStart is explored with
ServeSettings ==
    { <<>>, nameNgrok, nameLocaltunnel, nameAuto, <<"A">> \o Tail(nameAuto),
      nameAuto \o <<" ">>, nameNgrok \o <<"2">> }

errPublicKeyRequired == "discord.public_key is required for signature verification"
errRedisConnect == "failed to connect to redis"
errServerInit == "failed to initialize interaction server"
errRegisterHandlers == "handler registration failed"
errResolveTunnel == "unable to determine tunnel provider"
errStartTunnel == "failed to start tunnel"
errServerExited == "interaction server exited with error"

\* where the steps before the tunnel may fail ("" = nowhere)
SetupFailures ==
    {"", errPublicKeyRequired, errRedisConnect, errServerInit, errRegisterHandlers}

\* the provider taken from the settings as they were loaded
tunnelOptionsProvider_Setting(setting, resolved) == setting

\* tunnelOptions.Provider of the startTunnel call of maybeStartTunnel
tunnelOptionsProvider(setting, resolved) == resolved

\* a deferred function that never closes the session
tunnelCloseDeferred_Never(session) == FALSE

\* the deferred function of runServerStart: Close when tunnelSession != nil
tunnelCloseDeferred(session) == session # NoSession

InitServe ==
    /\ SupervisionOnly
    /\ NoDaemon
    /\ NoDaemonize
    /\ NoStarters
    /\ NoConfigFile
    /\ NoTunnel
    /\ onPath \in SUBSET {"ngrok", "lt"}
    /\ resCalls = <<>>
    /\ servePc = "setup"
    /\ serveCfg \in [Provider : ServeSettings, ListenAddr : ListenAddrs,
                     PublicURL : {""}]
    /\ serveDefers = <<>>
    /\ serveLog = <<>>
    /\ serveErr = ""

\* from the public key check to registerInteractionHandlers
ServeSetup(fail) ==
    /\ servePc = "setup"
    /\ serveErr' = fail
    /\ servePc' = IF fail = "" THEN "resolve" ELSE "defers"
    /\ IF fail \in {errPublicKeyRequired, errRedisConnect}
       THEN UNCHANGED <<serveDefers, serveLog>>
       ELSE /\ serveDefers' = <<"publisher.Close">>
            /\ serveLog' = <<"newRedisPublisher">>
    /\ UNCHANGED <<serveCfg, resVars, tunVars, notServeVars>>

\* maybeStartTunnel up to the startTunnel call
ServeResolve ==
    /\ servePc = "resolve"
    /\ LET r == resolveTunnelProvider(serveCfg.Provider, onPath) IN
          /\ resCalls' = Append(resCalls, [provider |-> serveCfg.Provider,
                                           path |-> onPath, out |-> r])
          /\ IF r.err # ""
             THEN /\ serveErr' = errResolveTunnel
                  /\ servePc' = "defers"
                  /\ UNCHANGED <<serveCfg, serveDefers, tunOpts>>
             ELSE IF r.provider = <<>>
             THEN /\ servePc' = "listen"
                  /\ serveDefers' = Append(serveDefers, "tunnel.Close")
                  /\ UNCHANGED <<serveCfg, serveErr, tunOpts>>
             ELSE /\ servePc' = "tunnel"
                  /\ serveCfg' = [serveCfg EXCEPT !.Provider = r.provider]
                  /\ tunOpts' = [Provider |-> tunnelOptionsProvider(serveCfg.Provider,
                                                                    r.provider),
                                 ListenAddr |-> serveCfg.ListenAddr]
                  /\ UNCHANGED <<serveDefers, serveErr>>
    /\ UNCHANGED <<onPath, serveLog, tunCtx, tunPc, tunTimer, tunPolls, tunProcs,
                   tunTried, tunSession, tunErr, closeVars, notServeVars>>

\* startTunnel, called by maybeStartTunnel with cmd.Context()
ServeTunnelStep ==
    /\ servePc = "tunnel"
    /\ \/ StartTunnel
       \/ \E launchOK, startOK \in BOOLEAN : NgrokLaunch(launchOK, startOK)
       \/ \E reply \in NgrokReplies : NgrokFetch(reply)
       \/ \E case \in {"done", "tick"} : NgrokSelect(case)
       \/ \E launchOK, pipeOK, startOK \in BOOLEAN :
              LtLaunch(launchOK, pipeOK, startOK)
       \/ LtSelect
       \/ \E line \in LtLines : LtScanLine(line)
       \/ \E scanErr \in BOOLEAN : LtScanEnds(scanErr)
       \/ WaitTimerFires

\* maybeStartTunnel after startTunnel returned, and the defer that follows it
ServeTunnelReturned ==
    /\ servePc = "tunnel"
    /\ tunPc = "returned"
    /\ IF tunErr # ""
       THEN /\ serveErr' = errStartTunnel
            /\ servePc' = "defers"
            /\ UNCHANGED <<serveCfg, serveDefers>>
       ELSE /\ serveCfg' = [serveCfg EXCEPT !.PublicURL = tunSession.URL]
            /\ serveDefers' = Append(serveDefers, "tunnel.Close")
            /\ servePc' = "listen"
            /\ UNCHANGED serveErr
    /\ UNCHANGED <<serveLog, resVars, tunVars, notServeVars>>

\* signal.NotifyContext and the goroutine that runs ListenAndServe
ServeListen ==
    /\ servePc = "listen"
    /\ serveDefers' = Append(serveDefers, "stop")
    /\ serveLog' = Append(serveLog, "http.ListenAndServe")
    /\ servePc' = "select"
    /\ UNCHANGED <<serveCfg, serveErr, resVars, tunVars, notServeVars>>

\* the select on ctx.Done() and errCh
ServeSelect(case) ==
    /\ servePc = "select"
    /\ CASE case = "interrupt" ->
              /\ serveLog' = Append(serveLog, "http.Shutdown")
              /\ serveErr' = ""
         [] case = "error" ->
              /\ serveErr' = errServerExited
              /\ UNCHANGED serveLog
    /\ servePc' = "defers"
    /\ UNCHANGED <<serveCfg, serveDefers, resVars, tunVars, notServeVars>>

\* the deferred call that runs next
TopDefer == serveDefers[Len(serveDefers)]

\* the deferred Close of the session, with context.Background()
ServeCloseStep ==
    /\ servePc = "defers"
    /\ serveDefers # <<>>
    /\ TopDefer = "tunnel.Close"
    /\ tunnelCloseDeferred(tunSession)
    /\ \/ \E sigOK \in BOOLEAN : CloseBegin(sigOK)
       \/ \E case \in {"done", "timer"}, waitErr \in WaitErrors :
              CloseSelect(case, waitErr)
       \/ CloseTimerFires

\* a deferred call returns
ServeDefer ==
    /\ servePc = "defers"
    /\ serveDefers # <<>>
    /\ TopDefer = "tunnel.Close" /\ tunnelCloseDeferred(tunSession)
          => closePc = "returned"
    /\ serveDefers' = SubSeq(serveDefers, 1, Len(serveDefers) - 1)
    /\ serveLog' = IF TopDefer = "tunnel.Close" /\ ~tunnelCloseDeferred(tunSession)
                   THEN serveLog
                   ELSE Append(serveLog, TopDefer)
    /\ UNCHANGED <<servePc, serveCfg, serveErr, resVars, tunVars, notServeVars>>

ServeReturn ==
    /\ servePc = "defers"
    /\ serveDefers = <<>>
    /\ servePc' = "returned"
    /\ UNCHANGED <<serveCfg, serveDefers, serveLog, serveErr, resVars, tunVars,
                   notServeVars>>

NextServe ==
    \/ \E fail \in SetupFailures : ServeSetup(fail)
    \/ ServeResolve
    \/ ServeTunnelStep
    \/ ServeTunnelReturned
    \/ ServeListen
    \/ \E case \in {"interrupt", "error"} : ServeSelect(case)
    \/ ServeCloseStep
    \/ ServeDefer
    \/ ServeReturn
    \/ servePc # "returned" /\ TunnelContextDone
    \/ \E p \in {"ngrok", "localtunnel"} : ProcessExits(p)

SpecServe == InitServe /\ [][NextServe]_vars

\* the call was logged
Logged(call) == \E k \in 1..Len(serveLog) : serveLog[k] = call

\* the subprocess command of each provider
BinaryOf(provider) == IF provider = nameNgrok THEN "ngrok" ELSE "lt"

ProcessOf(provider) == IF provider = nameNgrok THEN "ngrok" ELSE "localtunnel"

\* C36: in the server start path the setting is resolved to one concrete
\* provider before startTunnel is called, "auto" by probing for the binaries;
\* startTunnel is never called with "auto" there, makes one attempt only, and
\* a failure of that attempt is returned as the start error, the other
\* provider left untried and the HTTP server not started.
C36_ResolvedProviderOnly ==
    tunPc # "idle" =>
        /\ tunOpts.Provider \in {nameNgrok, nameLocaltunnel}
        /\ Len(resCalls) = 1
        /\ Spells(resCalls[1].provider, nameAuto) =>
              /\ BinaryOf(tunOpts.Provider) \in onPath
              /\ "ngrok" \in onPath => tunOpts.Provider = nameNgrok
        /\ ~Spells(resCalls[1].provider, nameAuto) =>
              Spells(resCalls[1].provider, tunOpts.Provider)
        /\ Len(tunTried) <= 1
        /\ \A p \in {"ngrok", "localtunnel"} :
              tunProcs[p].calls # <<>> => p = ProcessOf(tunOpts.Provider)
        /\ Len(tunTried) = 1 =>
              tunTried[1].provider = ProcessOf(tunOpts.Provider)
        /\ tunPc = "returned" /\ tunErr # "" /\ servePc # "tunnel" =>
              /\ serveErr = errStartTunnel
              /\ tunSession = NoSession
              /\ ~Logged("http.ListenAndServe")

\* "auto" with both binaries installed: the ngrok attempt failed after its
\* subprocess was started, runServerStart returned the error, lt never ran
C36_Witness ==
    /\ servePc = "returned"
    /\ Len(resCalls) = 1
    /\ resCalls[1].provider = nameAuto
    /\ onPath = {"ngrok", "lt"}
    /\ WasStarted(tunProcs["ngrok"])
    /\ tunErr # ""
    /\ serveErr = errStartTunnel
    /\ tunProcs["localtunnel"].calls = <<>>

\* position of a call in the log (0 = not logged)
LoggedAt(call) ==
    IF Logged(call) THEN CHOOSE k \in 1..Len(serveLog) : serveLog[k] = call ELSE 0

\* C37: whenever runServerStart returns after a tunnel session was created,
\* on interrupt or on an HTTP server error, the session's Close was invoked
\* and has returned and the publisher was closed after it; and when the
\* tunnel fails to start, the HTTP listener is never started.
C37_CleanupOnReturn ==
    /\ servePc = "returned" /\ tunSession # NoSession =>
          /\ closePc = "returned"
          /\ CallsOf(tunProcs[tunSession.Provider], "Signal") # {}
          /\ Logged("tunnel.Close")
          /\ Logged("publisher.Close")
          /\ LoggedAt("tunnel.Close") < LoggedAt("publisher.Close")
          /\ Logged("http.ListenAndServe")
    /\ Len(resCalls) = 1 /\ resCalls[1].out.err # "" => ~Logged("http.ListenAndServe")
    /\ tunErr # "" => ~Logged("http.ListenAndServe")
    /\ Logged("http.ListenAndServe") => tunPc \in {"idle", "returned"}
    /\ servePc = "returned" /\ Logged("newRedisPublisher") => Logged("publisher.Close")

\* the HTTP server failed while the tunnel was up; the session was closed
C37_Witness ==
    /\ servePc = "returned"
    /\ serveErr = errServerExited
    /\ tunSession # NoSession
    /\ closePc = "returned"
    /\ tunCtx = ""

-----------------------------------------------------------------------------
(* ServerPrereqChecker: the report computed before runServerStart *)

PrereqOK == "OK"
PrereqMissing == "MISSING"
PrereqInvalid == "INVALID"

\* len(publicKey); "K1" stands for a key of 64 hexadecimal characters
publicKeyLen(key) == IF key = "" THEN 0 ELSE 64

checkPublicKey(key, dry) ==
    [Required |-> ~dry,
     Status |-> IF dry THEN PrereqOK
                ELSE IF key = "" THEN PrereqMissing
                ELSE IF publicKeyLen(key) # 64 THEN PrereqInvalid
                ELSE PrereqOK]

checkInteractions(c) ==
    LET totalHandlers == Cardinality(DOMAIN c.Handlers.Commands)
                         + Cardinality(DOMAIN c.Handlers.Components)
                         + Cardinality(DOMAIN c.Handlers.Modals)
                         + Cardinality(DOMAIN c.Handlers.Autocomplete)
    IN  [Required |-> TRUE,
         Status |-> IF ~c.Enabled THEN PrereqInvalid
                    ELSE IF totalHandlers = 0 THEN PrereqMissing
                    ELSE PrereqOK]

\* what the checks of the config file, of Redis and of the application ID
\* find: each passes or fails with the environment
PrereqEnvs == [config : BOOLEAN, redis : BOOLEAN, appID : BOOLEAN]

\* report.AllPassed of ServerPrereqChecker.Check
AllPassed(key, dry, c, e) ==
    /\ e.config
    /\ ~(checkPublicKey(key, dry).Status # PrereqOK /\ checkPublicKey(key, dry).Required)
    /\ e.redis
    /\ checkInteractions(c).Status = PrereqOK
    /\ e.appID

\* C39: when the prerequisite report computed for a server start passes, the
\* start that follows with the same configuration and flags does not fail
\* for a missing public key or for having no handler bindings.
C39_Original ==
    \A e \in PrereqEnvs :
        (AllPassed(publicKey, dryRun, cfg, e) /\ srvState = "failed") =>
            /\ startErr # "discord.public_key is required"
            /\ startErr # "no interaction handlers configured"

-----------------------------------------------------------------------------
(* loadInteractionSettings: from discord.yaml to the settings of the start *)

\* handler maps a discord.yaml may define
FileCommandMaps == PartialMaps({<<"h">>, <<"H">>}, {Route(<<"c">>)})
FileComponentMaps == PartialMaps({<<"o">>}, {Route(<<"X">>)})

\* the files: the interactions.enabled key absent, true or false
ConfigFiles ==
    {NoFile} \cup
    [present : {TRUE}, enabled : {"absent", "true", "false"},
     Handlers : [Commands : FileCommandMaps, Components : FileComponentMaps,
                 Modals : {EmptyTable}, Autocomplete : {EmptyTable}]]

\* yaml.Unmarshal into the bool field Enabled: a missing key leaves false
yamlEnabled(key) == key = "true"

defaultHandlerEnabled == TRUE

defaultInteractionSettings ==
    [Enabled |-> defaultHandlerEnabled,
     Timeout |-> defaultInteractionTimeout,
     Handlers |-> [Commands |-> EmptyTable, Components |-> EmptyTable,
                   Modals |-> EmptyTable, Autocomplete |-> EmptyTable]]

\* one loop of mergeHandlerMappings: target[key] = route, in iteration order
RECURSIVE mergeRoutes(_, _, _, _)
mergeRoutes(target, src, order, lower) ==
    IF order = <<>> THEN target
    ELSE mergeRoutes(Put(target, IF lower THEN ToLower(Head(order)) ELSE Head(order),
                         src[Head(order)]),
                     src, Tail(order), lower)

\* settings.Interactions as loadInteractionSettings returns it
loadInteractionSettings(file, ord) ==
    LET d == defaultInteractionSettings IN
    IF ~file.present THEN d
    ELSE [Enabled |-> IF ~yamlEnabled(file.enabled) THEN FALSE ELSE d.Enabled,
          Timeout |-> d.Timeout,
          Handlers |->
            [Commands |-> mergeRoutes(d.Handlers.Commands, file.Handlers.Commands,
                                      ord.Commands, TRUE),
             Components |-> mergeRoutes(d.Handlers.Components,
                                        file.Handlers.Components, ord.Components, FALSE),
             Modals |-> mergeRoutes(d.Handlers.Modals, file.Handlers.Modals,
                                    ord.Modals, FALSE),
             Autocomplete |-> mergeRoutes(d.Handlers.Autocomplete,
                                          file.Handlers.Autocomplete,
                                          ord.Autocomplete, TRUE)]]

InitLoad ==
    /\ publicKey \in {"", "K1"}
    /\ redisPrefix = <<>>
    /\ cfg = defaultInteractionSettings
    /\ dryRun \in BOOLEAN
    /\ srvState = "config"
    /\ startErr = ""
    /\ bindings = <<>>
    /\ handlers = EmptyTable
    /\ srvDryRun = FALSE
    /\ pubPrefix = <<>>
    /\ InitRequests({1})
    /\ NoPublisherUse
    /\ NoSubscription
    /\ NoListener
    /\ NoRegistry
    /\ NoResolve
    /\ NoTunnel
    /\ NoDaemon
    /\ NoDaemonize
    /\ NoStarters
    /\ NoServe
    /\ cfgFile \in ConfigFiles

\* loadConfigWithInteractions at the head of runServerStart
LoadSettings ==
    /\ srvState = "config"
    /\ \E oc \in Orders(DOMAIN cfgFile.Handlers.Commands),
          ox \in Orders(DOMAIN cfgFile.Handlers.Components),
          om \in Orders(DOMAIN cfgFile.Handlers.Modals),
          oa \in Orders(DOMAIN cfgFile.Handlers.Autocomplete) :
            cfg' = loadInteractionSettings(cfgFile,
                      [Commands |-> oc, Components |-> ox, Modals |-> om,
                       Autocomplete |-> oa])
    /\ srvState' = "init"
    /\ UNCHANGED <<publicKey, redisPrefix, dryRun, startErr, bindings, handlers,
                   srvDryRun, pubPrefix, requestVars, notServerVars>>

NextLoad ==
    \/ LoadSettings
    \/ Start

SpecLoad == InitLoad /\ [][NextLoad]_vars

\* the file defines at least one handler
DefinesHandlers(file) ==
    \E kind \in DOMAIN file.Handlers : DOMAIN file.Handlers[kind] # {}

\* C40: for a config file that defines handlers and has no
\* interactions.enabled key the loaded settings keep interactions enabled, and
\* a start that gets as far as collecting the handlers has bindings; the
\* settings are disabled only when the file sets enabled to false.
C40_Original ==
    srvState # "config" =>
        /\ (cfgFile.present /\ cfgFile.enabled = "absent" /\ DefinesHandlers(cfgFile)) =>
              /\ cfg.Enabled
              /\ (srvState = "serving" \/ startErr = "no interaction handlers configured")
                    => bindings # <<>>
        /\ ~cfg.Enabled => cfgFile.present /\ cfgFile.enabled = "false"

=============================================================================
